---- MODULE Spec2Model ----
(***************************************************************************)
(* A model of moi.js: the operation validators and the interaction-level   *)
(* validator of js-moi-utils, the participant and fund gathering done by   *)
(* interaction(), the finalization polling of InteractionResponse, the     *)
(* receipt polling of BaseProvider.waitForInteraction, the identifiers of  *)
(* js-moi-identifiers, and the decode paths of the manifest coder with     *)
(* their callers in js-moi-logic.                                          *)
(*                                                                         *)
(* JavaScript values are tagged records, so that null, undefined, numbers, *)
(* strings, arrays and objects can sit in the same field and be compared.  *)
(***************************************************************************)
EXTENDS Integers, Sequences, FiniteSets, TLC

VARIABLES
    opIn, opOut, opPc,                  \* validateOperation: argument, result, position
    ixReq, ixOut, ixPc,                 \* validateIxRequest: argument, result, position
    gIx, gParticipants, gFunds, gPc,    \* interaction(): request, gathered lists, position
    wTimer, wTimer0, wInteraction, wRetries, wPolls, wClock, wLastPoll, wAllPending,
    wSpaced, wOutcome, wPc,             \* InteractionResponse.wait
    rPc, rTimeout, rIntervalId, rTimeoutId, rSettled, rInFlight, rPolls,
    rPollsAfterSettle,                  \* BaseProvider.waitForInteraction
    idCall, idOut, idShared, idArg, idBytes0, idCopy, idWrites,
    idPc,                               \* identifiers: call, result, arrays, position
    dCall, dIn, dOut, dLogicId, dPc,    \* manifest coder and its callers
    skDriver, skCalls,                  \* LogicDriver.getStorageKey: driver, calls made
    sgCall, sgArg, sgPc, sgRequest, sgSequence, sgSequence0, sgLatest, sgLog,
    sgOut,                              \* Signer.execute and the providers' submission
    ldDriver, ldNetwork, ldProc, ldSigner,  \* LogicDriver: fields, deploy, calls
    evEvents, evTimers, evRemoved, evInvoked, evCalls,
    evOut                               \* BaseProvider: _events, timers, history

opVars == <<opIn, opOut, opPc>>

ixVars == <<ixReq, ixOut, ixPc>>

gVars == <<gIx, gParticipants, gFunds, gPc>>

wVars ==
    <<wTimer, wTimer0, wInteraction, wRetries, wPolls, wClock, wLastPoll, wAllPending,
      wSpaced, wOutcome, wPc>>

rVars == <<rPc, rTimeout, rIntervalId, rTimeoutId, rSettled, rInFlight, rPolls, rPollsAfterSettle>>

idVars == <<idCall, idOut, idShared, idArg, idBytes0, idCopy, idWrites, idPc>>

dVars == <<dCall, dIn, dOut, dLogicId, dPc>>

skVars == <<skDriver, skCalls>>

sgVars ==
    <<sgCall, sgArg, sgPc, sgRequest, sgSequence, sgSequence0, sgLatest, sgLog, sgOut>>

ldVars == <<ldDriver, ldNetwork, ldProc, ldSigner>>

evVars == <<evEvents, evTimers, evRemoved, evInvoked, evCalls, evOut>>

lateVars == <<skVars, sgVars, ldVars, evVars>>

otherVars == <<rVars, idVars, dVars, lateVars>>

earlyVars == <<opVars, ixVars, gVars, wVars, rVars, idVars, dVars>>

vars == <<opVars, ixVars, gVars, wVars, otherVars>>

(***************************************************************************)
(* Bounds of the model.                                                    *)
(***************************************************************************)
MaxAmount == 1

MaxOperations == 2

MaxParticipants == 2

MaxFunds == 2

MaxRetries == 4

(***************************************************************************)
(* JavaScript values.                                                      *)
(***************************************************************************)
Null == [t |-> "null"]

Undefined == [t |-> "undefined"]

Absent == [t |-> "absent"]

Num(n) == [t |-> "number", n |-> n]

Str(s) == [t |-> "string", s |-> s]

Arr(items) == [t |-> "array", items |-> items]

Obj(fields) == [t |-> "object", o |-> fields]

Bool(b) == [t |-> "boolean", b |-> b]

\* The result of a call that threw instead of returning.
Throw(message) == [t |-> "throw", message |-> message]

\* obj.k : undefined when the object has no such key
Get(obj, k) == IF k \in DOMAIN obj.o THEN obj.o[k] ELSE Undefined

\* "k" in obj
In(k, obj) == k \in DOMAIN obj.o

\* v == null (true of null and of undefined)
IsNil(v) == v.t \in {"null", "undefined"}

\* v < k for a number k: null converts to 0, undefined and the strings of the
\* model convert to NaN, and every comparison with NaN is false
JsLt(v, k) ==
    CASE v.t = "number" -> v.n < k
      [] v.t = "null" -> 0 < k
      [] OTHER -> FALSE

\* v <= k
JsLe(v, k) ==
    CASE v.t = "number" -> v.n <= k
      [] v.t = "null" -> 0 <= k
      [] OTHER -> FALSE

\* the truthiness of v
Truthy(v) ==
    CASE v.t = "number" -> v.n # 0
      [] v.t = "string" -> v.s # ""
      [] v.t \in {"null", "undefined"} -> FALSE
      [] OTHER -> TRUE

\* Array.isArray(v)
IsArray(v) == v.t = "array"

(***************************************************************************)
(* Addresses and hex strings.  The strings of the model are symbolic: the  *)
(* valid addresses, hex strings that are no address, and a string that is  *)
(* not hex at all.                                                         *)
(***************************************************************************)
ValidAddresses == {"0xa1", "0xa2", "0xa3", "0xa4", "0xa5"}

AssetIds == {"0xas1", "0xas2"}

LogicIds == {"0xlg1"}

HexStrings == ValidAddresses \cup AssetIds \cup LogicIds \cup {"0x", "0x12"}

NotHex == "zz"

isValidAddress(v) == v.t = "string" /\ v.s \in ValidAddresses

isHex(v) == v.t = "string" /\ v.s \in HexStrings

(***************************************************************************)
(* enums                                                                   *)
(***************************************************************************)
OpType ==
    [ParticipantCreate |-> 0, AccountConfigure |-> 1, AssetTransfer |-> 2,
     AssetCreate |-> 3, AssetApprove |-> 4, AssetRevoke |-> 5, AssetMint |-> 6,
     AssetBurn |-> 7, AssetLockup |-> 8, AssetRelease |-> 9, LogicDeploy |-> 10,
     LogicInvoke |-> 11, LogicEnlist |-> 12]

OpTypeValues == {OpType[k] : k \in DOMAIN OpType}

LockType == [MutateLock |-> 0, ReadLock |-> 1, NoLock |-> 2]

\* the keys of the AssetStandard enum object (names and reverse mappings)
AssetStandardKeys == {"0", "1", "MAS0", "MAS1"}

\* key in AssetStandard
InAssetStandard(v) ==
    CASE v.t = "number" -> ToString(v.n) \in AssetStandardKeys
      [] v.t = "string" -> v.s \in AssetStandardKeys
      [] OTHER -> FALSE

(***************************************************************************)
(* operations.ts: the validators of the operation descriptors              *)
(***************************************************************************)
createInvalidResult(value, field, message) ==
    [t |-> "invalid", field |-> field, message |-> message, value |-> Get(value, field)]

createParticipantCreateDescriptor_validator(payload) ==
    IF ~isValidAddress(Get(payload, "address"))
    THEN createInvalidResult(payload, "address", "Invalid address")
    ELSE IF JsLt(Get(payload, "amount"), 0)
    THEN createInvalidResult(payload, "amount", "Amount cannot be negative")
    ELSE Null

createAssetCreateDescriptor_validator(payload) ==
    IF JsLt(Get(payload, "supply"), 0)
    THEN createInvalidResult(payload, "supply", "Supply cannot be negative")
    ELSE IF ~InAssetStandard(Get(payload, "standard"))
    THEN createInvalidResult(payload, "standard", "Invalid asset standard")
    ELSE IF Truthy(Get(payload, "dimension")) /\ JsLt(Get(payload, "dimension"), 0)
    THEN createInvalidResult(payload, "dimension", "Dimension cannot be negative")
    ELSE Null

createAssetSupplyDescriptorFor_validator(type, payload) ==
    IF JsLt(Get(payload, "amount"), 0)
    THEN createInvalidResult(payload, "amount", "Amount cannot be negative")
    ELSE IF ~isHex(Get(payload, "asset_id"))
    THEN createInvalidResult(payload, "asset_id", "Invalid asset ID")
    ELSE Null

\* the types whose amount the asset action validator looks at
AmountCheckedTypes == {OpType.AssetTransfer, OpType.AssetApprove}

createAssetActionDescriptor_validator(type, payload) ==
    IF In("benefactor", payload) /\ ~isValidAddress(Get(payload, "benefactor"))
    THEN createInvalidResult(payload, "benefactor", "Invalid benefactor address")
    ELSE IF ~isValidAddress(Get(payload, "beneficiary"))
    THEN createInvalidResult(payload, "beneficiary", "Invalid beneficiary address")
    ELSE IF type \in AmountCheckedTypes /\ ~In("amount", payload)
    THEN createInvalidResult(payload, "amount",
                             "Amount is required for transfer and approve operations")
    ELSE IF type \in AmountCheckedTypes /\ JsLt(Get(payload, "amount"), 0)
    THEN createInvalidResult(payload, "amount", "Amount cannot be negative")
    ELSE IF ~isHex(Get(payload, "asset_id"))
    THEN createInvalidResult(payload, "asset_id", "Invalid asset ID")
    ELSE IF type = OpType.AssetApprove /\ ~In("timestamp", payload)
    THEN createInvalidResult(payload, "timestamp",
                             "Timestamp is required for approve operation")
    ELSE Null

createLogicActionDescriptor_validator(type, payload) ==
    IF type = OpType.LogicDeploy /\ ~In("manifest", payload)
    THEN createInvalidResult(payload, "manifest",
                             "Manifest is required for logic deploy operation")
    ELSE IF type = OpType.LogicDeploy /\ ~isHex(Get(payload, "manifest"))
    THEN createInvalidResult(payload, "manifest", "Manifest must be a hex string")
    ELSE IF (type # OpType.LogicDeploy \/ type = OpType.LogicEnlist)
            /\ ~In("logic_id", payload)
    THEN createInvalidResult(payload, "logic_id", "Logic ID is required")
    ELSE IF In("calldata", payload) /\ ~isHex(Get(payload, "calldata"))
    THEN createInvalidResult(payload, "calldata", "Calldata must be a hex string")
    ELSE IF IsNil(Get(payload, "callsite")) \/ Get(payload, "callsite") = Str("")
    THEN createInvalidResult(payload, "callsite", "Callsite is required")
    ELSE Null

\* a registry that lost the AssetRelease descriptor
ixOpDescriptor_withoutRelease ==
    {OpType.ParticipantCreate, OpType.AssetCreate, OpType.AssetMint, OpType.AssetBurn,
     OpType.AssetTransfer, OpType.AssetApprove,
     OpType.LogicDeploy, OpType.LogicInvoke, OpType.LogicEnlist}

\* the operation types that have a descriptor in ixOpDescriptor
ixOpDescriptor ==
    {OpType.ParticipantCreate, OpType.AssetCreate, OpType.AssetMint, OpType.AssetBurn,
     OpType.AssetTransfer, OpType.AssetApprove, OpType.AssetRelease,
     OpType.LogicDeploy, OpType.LogicInvoke, OpType.LogicEnlist}

\* descriptor.validator(payload) of the descriptor registered for type
descriptor_validator(type, payload) ==
    CASE type = OpType.ParticipantCreate ->
           createParticipantCreateDescriptor_validator(payload)
      [] type = OpType.AssetCreate ->
           createAssetCreateDescriptor_validator(payload)
      [] type \in {OpType.AssetMint, OpType.AssetBurn} ->
           createAssetSupplyDescriptorFor_validator(type, payload)
      [] type \in {OpType.AssetTransfer, OpType.AssetApprove, OpType.AssetRelease} ->
           createAssetActionDescriptor_validator(type, payload)
      [] OTHER ->
           createLogicActionDescriptor_validator(type, payload)

hasDescriptor(type) == type.t = "number" /\ type.n \in ixOpDescriptor

\* Reading a property of null or undefined is a TypeError: every validator
\* starts by reading one of its payload.
validateOperation(operation) ==
    IF ~hasDescriptor(Get(operation, "type"))
    THEN Throw("Descriptor for operation type is not registered")
    ELSE IF IsNil(Get(operation, "payload"))
    THEN Throw("TypeError")
    ELSE descriptor_validator(Get(operation, "type").n, Get(operation, "payload"))

isValidOperation(operation) ==
    LET r == validateOperation(operation)
    IN IF r.t = "throw" THEN r ELSE Bool(r = Null)

(***************************************************************************)
(* interaction.js: validateIxRequest                                       *)
(***************************************************************************)
RECURSIVE participantsLoop(_, _, _)
\* The loop over ix.participants, from entry i on, with the loop's local
\* `error`.  It ends by `return error` (returned), or by break or exhaustion,
\* and then the function goes on after the block that declared `error`.
participantsLoop(items, i, error) ==
    IF i > Len(items)
    THEN [returned |-> FALSE, error |-> error]
    ELSE IF error # Null
    THEN [returned |-> TRUE, error |-> error]
    ELSE IF ~isValidAddress(Get(items[i], "address"))
    THEN [returned |-> FALSE,
          error |-> createInvalidResult(items[i], "address", "Invalid participant address")]
    ELSE participantsLoop(items, i + 1, error)

\* the error built for the operation at (1-based) position i from the
\* validator's result
operationError(i, operation, result) ==
    [t |-> "invalid",
     field |-> "operations[" \o ToString(i - 1) \o "]." \o result.field,
     message |-> "Invalid operation payload at index " \o ToString(i - 1) \o ": "
                    \o result.message,
     value |-> operation]

RECURSIVE operationsLoop(_, _, _)
\* The loop over ix.operations, from position i on; its value is `error`
\* after the loop, or what validateOperation threw.
operationsLoop(items, i, error) ==
    IF i > Len(items) \/ error # Null
    THEN error
    ELSE IF IsNil(Get(items[i], "type"))
    THEN createInvalidResult(items[i], "type", "Operation type is required")
    ELSE IF IsNil(Get(items[i], "payload"))
    THEN createInvalidResult(items[i], "payload", "Operation payload is required")
    ELSE LET result == validateOperation(items[i])
         IN IF result.t = "throw"
            THEN result
            ELSE IF result = Null
            THEN operationsLoop(items, i + 1, error)
            ELSE operationsLoop(items, i + 1, operationError(i, items[i], result))

\* the part of validateIxRequest after the participants block
validateIxRequest_operations(ix) ==
    LET operations == Get(ix, "operations")
    IN IF IsNil(operations)
       THEN createInvalidResult(ix, "operations", "Operations are required")
       ELSE IF ~IsArray(operations)
       THEN createInvalidResult(ix, "operations", "Operations must be an array")
       ELSE IF Len(operations.items) = 0
       THEN createInvalidResult(ix, "operations",
                                "Operations must have at least one operation")
       ELSE operationsLoop(operations.items, 1, Null)

\* the participants block: an error to return, or Null to go on
validateIxRequest_participants(ix) ==
    LET participants == Get(ix, "participants")
    IN IF IsNil(participants)
       THEN Null
       ELSE IF ~IsArray(participants)
       THEN createInvalidResult(ix, "participants", "Participants must be an array")
       ELSE LET loop == participantsLoop(participants.items, 1, Null)
            IN IF loop.returned THEN loop.error ELSE Null

\* the fuel checks with fuel_limit compared by < instead of <=
validateIxRequest_fuel_acceptsZeroLimit(ix) ==
    IF IsNil(Get(ix, "fuel_price"))
    THEN createInvalidResult(ix, "fuel_price", "Fuel price is required")
    ELSE IF IsNil(Get(ix, "fuel_limit"))
    THEN createInvalidResult(ix, "fuel_limit", "Fuel limit is required")
    ELSE IF JsLt(Get(ix, "fuel_price"), 0)
    THEN createInvalidResult(ix, "fuel_price",
                             "Fuel price must be greater than or equal to 0")
    ELSE IF JsLt(Get(ix, "fuel_limit"), 0)
    THEN createInvalidResult(ix, "fuel_limit",
                             "Fuel limit must be greater than or equal to 0")
    ELSE Null

\* the checks on fuel_price and fuel_limit: an error to return, or Null
validateIxRequest_fuel(ix) ==
    IF IsNil(Get(ix, "fuel_price"))
    THEN createInvalidResult(ix, "fuel_price", "Fuel price is required")
    ELSE IF IsNil(Get(ix, "fuel_limit"))
    THEN createInvalidResult(ix, "fuel_limit", "Fuel limit is required")
    ELSE IF JsLt(Get(ix, "fuel_price"), 0)
    THEN createInvalidResult(ix, "fuel_price",
                             "Fuel price must be greater than or equal to 0")
    ELSE IF JsLe(Get(ix, "fuel_limit"), 0)
    THEN createInvalidResult(ix, "fuel_limit",
                             "Fuel limit must be greater than or equal to 0")
    ELSE Null

validateIxRequest(ix) ==
    IF IsNil(Get(ix, "sender"))
    THEN createInvalidResult(ix, "sender", "Sender is required")
    ELSE IF ~isValidAddress(Get(Get(ix, "sender"), "address"))
    THEN createInvalidResult(Get(ix, "sender"), "address", "Invalid sender address")
    ELSE IF validateIxRequest_fuel(ix) # Null
    THEN validateIxRequest_fuel(ix)
    ELSE IF ~IsNil(Get(ix, "payer")) /\ ~isValidAddress(Get(ix, "payer"))
    THEN createInvalidResult(ix, "payer", "Invalid payer address")
    ELSE IF validateIxRequest_participants(ix) # Null
    THEN validateIxRequest_participants(ix)
    ELSE validateIxRequest_operations(ix)

\* isValidIxRequest is handed an object here; what validateIxRequest throws
\* is caught
isValidIxRequest(ix) ==
    LET r == validateIxRequest(ix)
    IN IF r.t = "throw" THEN Bool(FALSE) ELSE Bool(r = Null)

(***************************************************************************)
(* interaction.js: gatherIxParticipants, gatherIxFunds, interaction        *)
(*                                                                         *)
(* A Map is the sequence of its entries in insertion order, keys distinct. *)
(***************************************************************************)
MapHas(m, k) == \E i \in DOMAIN m : m[i].key = k

\* m.set(k, v): a new key is appended, an existing key keeps its place and
\* takes the new value
MapSet(m, k, v) ==
    IF MapHas(m, k)
    THEN [i \in DOMAIN m |-> IF m[i].key = k THEN [key |-> k, value |-> v] ELSE m[i]]
    ELSE Append(m, [key |-> k, value |-> v])

\* Array.from(m.values())
MapValues(m) == [i \in DOMAIN m |-> m[i].value]

\* new AssetId(id) and new LogicId(id) throw for a value that is no identifier
\* of their kind
IsIdentifier(id, ids) == id.t = "string" /\ id.s \in ids

\* assetId.getAddress(): the account of the asset
AssetId_getAddress(id) ==
    Str(CASE id.s = "0xas1" -> "0xa3" [] OTHER -> "0xa4")

\* logicId.getAddress(): the account of the logic
LogicId_getAddress(id) == Str("0xa4")

\* the entry gatherIxParticipants makes for an address it found itself
mutateLockParticipant(address) ==
    Obj([address |-> address, lock_type |-> Num(LockType.MutateLock),
         notary |-> Bool(FALSE)])

RECURSIVE gatherIxParticipants_operations(_, _, _)
\* the loop over interaction.operations, from position i on: the Map after
\* it, or what a constructor threw
gatherIxParticipants_operations(items, i, participants) ==
    IF i > Len(items)
    THEN [t |-> "map", entries |-> participants]
    ELSE LET type == Get(items[i], "type").n
             payload == Get(items[i], "payload")
             with(address) ==
                 gatherIxParticipants_operations(
                     items, i + 1,
                     MapSet(participants, address, mutateLockParticipant(address)))
         IN CASE type = OpType.ParticipantCreate -> with(Get(payload, "address"))
              [] type \in {OpType.AssetMint, OpType.AssetBurn} ->
                   IF IsIdentifier(Get(payload, "asset_id"), AssetIds)
                   THEN with(AssetId_getAddress(Get(payload, "asset_id")))
                   ELSE Throw("Invalid asset identifier")
              [] type = OpType.AssetTransfer -> with(Get(payload, "beneficiary"))
              [] type \in {OpType.LogicInvoke, OpType.LogicEnlist} ->
                   IF IsIdentifier(Get(payload, "logic_id"), LogicIds)
                   THEN with(LogicId_getAddress(Get(payload, "logic_id")))
                   ELSE Throw("Invalid logic identifier")
              [] OTHER -> gatherIxParticipants_operations(items, i + 1, participants)

\* a declared participant that replaces the entry of its address
declaredParticipant_overriding(participants, participant) ==
    MapSet(participants, Get(participant, "address"), participant)

\* one round of the loop over interaction.participants
declaredParticipant(participants, participant) ==
    IF MapHas(participants, Get(participant, "address"))
    THEN participants
    ELSE MapSet(participants, Get(participant, "address"), participant)

RECURSIVE gatherIxParticipants_declared(_, _, _)
gatherIxParticipants_declared(items, i, participants) ==
    IF i > Len(items)
    THEN participants
    ELSE gatherIxParticipants_declared(items, i + 1,
                                       declaredParticipant(participants, items[i]))

\* interaction.participants ?? [] and interaction.funds ?? []
OrEmpty(v) == IF IsNil(v) THEN <<>> ELSE v.items

gatherIxParticipants(interaction) ==
    LET sender == Get(Get(interaction, "sender"), "address")
        payer == Get(interaction, "payer")
        first == <<[key |-> sender, value |-> mutateLockParticipant(sender)]>>
        second == IF ~IsNil(payer)
                  THEN MapSet(first, payer, mutateLockParticipant(payer))
                  ELSE first
        third == gatherIxParticipants_operations(
                     Get(interaction, "operations").items, 1, second)
    IN IF third.t = "throw"
       THEN third
       ELSE Arr(MapValues(gatherIxParticipants_declared(
                   OrEmpty(Get(interaction, "participants")), 1, third.entries)))

FundTypes == {OpType.AssetTransfer, OpType.AssetMint, OpType.AssetBurn}

fund(asset_id, amount) == Obj([asset_id |-> asset_id, amount |-> amount])

RECURSIVE gatherIxFunds_operations(_, _, _)
gatherIxFunds_operations(items, i, funds) ==
    IF i > Len(items)
    THEN funds
    ELSE LET payload == Get(items[i], "payload")
         IN IF Get(items[i], "type").n \in FundTypes
            THEN gatherIxFunds_operations(
                     items, i + 1,
                     MapSet(funds, Get(payload, "asset_id"),
                            fund(Get(payload, "asset_id"), Get(payload, "amount"))))
            ELSE gatherIxFunds_operations(items, i + 1, funds)

\* a declared fund that replaces the scanned one of its asset
declaredFund_overriding(funds, declared) ==
    MapSet(funds, Get(declared, "asset_id"),
           fund(Get(declared, "asset_id"), Get(declared, "amount")))

\* one round of the loop over interaction.funds
declaredFund(funds, declared) ==
    IF MapHas(funds, Get(declared, "asset_id"))
    THEN funds
    ELSE MapSet(funds, Get(declared, "asset_id"),
                fund(Get(declared, "asset_id"), Get(declared, "amount")))

RECURSIVE gatherIxFunds_declared(_, _, _)
gatherIxFunds_declared(items, i, funds) ==
    IF i > Len(items)
    THEN funds
    ELSE gatherIxFunds_declared(items, i + 1, declaredFund(funds, items[i]))

gatherIxFunds(interaction) ==
    Arr(MapValues(gatherIxFunds_declared(
        OrEmpty(Get(interaction, "funds")), 1,
        gatherIxFunds_operations(Get(interaction, "operations").items, 1, <<>>))))

\* interaction(ix) up to the call of encodeInteraction: the participants and
\* funds handed to it, or what gathering threw
interaction(ix) ==
    LET participants == gatherIxParticipants(ix)
    IN IF participants.t = "throw"
       THEN [threw |-> TRUE, participants |-> participants, funds |-> Null]
       ELSE [threw |-> FALSE, participants |-> participants,
             funds |-> gatherIxFunds(ix)]

(***************************************************************************)
(* The states in which a component is not in use.                          *)
(***************************************************************************)
OpIdle == opIn = Null /\ opOut = Null /\ opPc = "idle"

IxIdle == ixReq = Null /\ ixOut = Null /\ ixPc = "idle"

GatherIdle == gIx = Null /\ gParticipants = Null /\ gFunds = Null /\ gPc = "idle"

WaitIdle ==
    /\ wTimer = Null /\ wTimer0 = Null /\ wInteraction = Null
    /\ wRetries = 0 /\ wPolls = 0 /\ wClock = 0 /\ wLastPoll = -1
    /\ wAllPending = TRUE /\ wSpaced = TRUE
    /\ wOutcome = Null /\ wPc = "idle"

ReceiptIdle ==
    /\ rPc = "idle" /\ rTimeout = Undefined /\ rIntervalId = FALSE /\ rTimeoutId = FALSE
    /\ rSettled = "pending" /\ rInFlight = 0 /\ rPolls = 0 /\ rPollsAfterSettle = 0

IdIdle ==
    /\ idCall = Null /\ idOut = Null /\ idShared = FALSE /\ idArg = Null
    /\ idBytes0 = Null /\ idCopy = Null /\ idWrites = 0 /\ idPc = "idle"

DecodeIdle ==
    dCall = Null /\ dIn = Null /\ dOut = Null /\ dLogicId = Null /\ dPc = "idle"

StorageIdle == skDriver = Null /\ skCalls = <<>>

SignerIdle ==
    sgCall = "none" /\ sgArg = Null /\ sgPc = "idle" /\ sgRequest = Null /\ sgSequence = 0
    /\ sgSequence0 = 0 /\ sgLatest = Null /\ sgLog = <<>> /\ sgOut = Null

DriverIdle ==
    ldDriver = Null /\ ldNetwork = Null /\ ldProc = <<>> /\ ldSigner = <<>>

EventsIdle ==
    evEvents = <<>> /\ evTimers = <<>> /\ evRemoved = {} /\ evInvoked = {}
    /\ evCalls = [on |-> 0, emit |-> 0] /\ evOut = Null

LateIdle == StorageIdle /\ SignerIdle /\ DriverIdle /\ EventsIdle

EarlyIdle ==
    OpIdle /\ IxIdle /\ GatherIdle /\ WaitIdle /\ ReceiptIdle /\ IdIdle /\ DecodeIdle

OtherIdle == ReceiptIdle /\ IdIdle /\ DecodeIdle /\ LateIdle

(***************************************************************************)
(* The operations handed to validateOperation.                             *)
(***************************************************************************)
\* an object literal: the keys given a value, the Absent ones left out
Strip(f) == Obj([k \in {j \in DOMAIN f : f[j] # Absent} |-> f[k]])

AmountValues == {Num(n) : n \in (0 - MaxAmount)..MaxAmount}

GoodAddress == Str("0xa1")

BadAddress == Str("0x12")

ParticipantCreatePayloads ==
    {Strip([address |-> a, amount |-> m]) :
        a \in {Absent, GoodAddress, BadAddress},
        m \in {Absent} \cup AmountValues}

AssetCreatePayloads ==
    {Strip([supply |-> s, standard |-> d, dimension |-> n]) :
        s \in {Absent} \cup AmountValues,
        d \in {Absent, Num(0), Num(2)},
        n \in {Absent} \cup AmountValues}

AssetSupplyPayloads ==
    {Strip([asset_id |-> s, amount |-> m]) :
        s \in {Absent, Str("0xas1"), Str(NotHex)},
        m \in {Absent, Null} \cup AmountValues}

AssetActionPayloads ==
    {Strip([benefactor |-> b, beneficiary |-> c, amount |-> m, asset_id |-> s,
            timestamp |-> ts]) :
        b \in {Absent, GoodAddress, BadAddress},
        c \in {Str("0xa2"), BadAddress},
        m \in {Absent, Undefined} \cup AmountValues,
        s \in {Str("0xas1"), Str(NotHex)},
        ts \in {Absent, Undefined, Null, Num(1)}}

LogicActionPayloads ==
    {Strip([manifest |-> m, logic_id |-> l, calldata |-> d, callsite |-> c]) :
        m \in {Absent, Undefined, Null, Str("0x"), Str(NotHex)},
        l \in {Absent, Undefined, Null, Str("0xlg1")},
        d \in {Absent, Str("0x"), Str(NotHex)},
        c \in {Absent, Str(""), Str("f")}}

PayloadsFor(type) ==
    CASE type = OpType.ParticipantCreate -> ParticipantCreatePayloads
      [] type = OpType.AssetCreate -> AssetCreatePayloads
      [] type \in {OpType.AssetMint, OpType.AssetBurn} -> AssetSupplyPayloads
      [] type \in {OpType.AssetTransfer, OpType.AssetApprove, OpType.AssetRelease} ->
           AssetActionPayloads
      [] type \in {OpType.LogicDeploy, OpType.LogicInvoke, OpType.LogicEnlist} ->
           LogicActionPayloads
      [] OTHER -> {Obj(<<>>)}


(***************************************************************************)
(* validateOperation and isValidOperation called on one operation          *)
(***************************************************************************)
InitOp ==
    /\ \E type \in OpTypeValues :
          \E payload \in PayloadsFor(type) :
              opIn = Obj([type |-> Num(type), payload |-> payload])
    /\ opOut = Null
    /\ opPc = "input"
    /\ IxIdle /\ GatherIdle /\ WaitIdle /\ OtherIdle

CallValidateOperation ==
    /\ opPc = "input"
    /\ opOut' = validateOperation(opIn)
    /\ opPc' = "validated"
    /\ UNCHANGED <<opIn, ixVars, gVars, wVars, otherVars>>

CallIsValidOperation ==
    /\ opPc = "input"
    /\ opOut' = isValidOperation(opIn)
    /\ opPc' = "checked"
    /\ UNCHANGED <<opIn, ixVars, gVars, wVars, otherVars>>

NextOp == CallValidateOperation \/ CallIsValidOperation

SpecOp == InitOp /\ [][NextOp]_vars

(***************************************************************************)
(* The requests handed to validateIxRequest.                               *)
(***************************************************************************)
SeqsUpTo(S, n) == UNION {[1..k -> S] : k \in 0..n}

ValidOperation ==
    Obj([type |-> Num(OpType.ParticipantCreate),
         payload |-> Obj([address |-> Str("0xa2"), amount |-> Num(1)])])

InvalidOperation ==
    Obj([type |-> Num(OpType.AssetMint),
         payload |-> Obj([asset_id |-> Str("0xas1"), amount |-> Num(-1)])])

UntypedOperation == Obj([payload |-> Obj([address |-> Str("0xa2")])])

EmptyOperation == Obj([type |-> Num(OpType.ParticipantCreate)])

UnregisteredOperation == Obj([type |-> Num(OpType.AssetLockup), payload |-> Obj(<<>>)])

IxOperations ==
    {ValidOperation, InvalidOperation, UntypedOperation, EmptyOperation,
     UnregisteredOperation}

ValidParticipant ==
    Obj([address |-> Str("0xa3"), lock_type |-> Num(LockType.ReadLock),
         notary |-> Bool(FALSE)])

InvalidParticipant ==
    Obj([address |-> BadAddress, lock_type |-> Num(LockType.ReadLock),
         notary |-> Bool(FALSE)])

FuelValues == {Absent, Num(-1), Num(0), Num(1)}

SenderValues == {Absent, Obj([address |-> GoodAddress]), Obj([address |-> BadAddress])}

PayerValues == {Absent, Str("0xa4"), BadAddress}

ParticipantsValues ==
    {Absent, Str("none")}
        \cup {Arr(q) : q \in SeqsUpTo({ValidParticipant, InvalidParticipant},
                                       MaxParticipants)}

OperationsValues ==
    {Absent, Str("none")} \cup {Arr(q) : q \in SeqsUpTo(IxOperations, MaxOperations)}

InitIx ==
    /\ \E s \in SenderValues, fp \in FuelValues, fl \in FuelValues, py \in PayerValues,
          ps \in ParticipantsValues, ops \in OperationsValues :
            ixReq = Strip([sender |-> s, fuel_price |-> fp, fuel_limit |-> fl,
                           payer |-> py, participants |-> ps, operations |-> ops])
    /\ ixOut = Null
    /\ ixPc = "input"
    /\ OpIdle /\ GatherIdle /\ WaitIdle /\ OtherIdle

CallValidateIxRequest ==
    /\ ixPc = "input"
    /\ ixOut' = validateIxRequest(ixReq)
    /\ ixPc' = "validated"
    /\ UNCHANGED <<ixReq, opVars, gVars, wVars, otherVars>>

CallIsValidIxRequest ==
    /\ ixPc = "input"
    /\ ixOut' = isValidIxRequest(ixReq)
    /\ ixPc' = "checked"
    /\ UNCHANGED <<ixReq, opVars, gVars, wVars, otherVars>>

NextIx == CallValidateIxRequest \/ CallIsValidIxRequest

SpecIx == InitIx /\ [][NextIx]_vars

(***************************************************************************)
(* The requests handed to interaction(): the sender is 0xa1.  Declared      *)
(* participants and declared funds are varied in turn.                     *)
(***************************************************************************)
MakeOperation(type, payload) == Obj([type |-> Num(type), payload |-> Obj(payload)])

GatherOperations ==
    {MakeOperation(OpType.AssetTransfer,
               [beneficiary |-> Str("0xa3"), asset_id |-> Str("0xas1"), amount |-> Num(1)]),
     MakeOperation(OpType.AssetTransfer,
               [beneficiary |-> Str("0xa1"), asset_id |-> Str("0xas1"), amount |-> Num(2)]),
     MakeOperation(OpType.AssetMint, [asset_id |-> Str("0xas2"), amount |-> Num(1)]),
     MakeOperation(OpType.AssetBurn, [asset_id |-> Str(NotHex), amount |-> Num(1)]),
     MakeOperation(OpType.ParticipantCreate, [address |-> Str("0xa2"), amount |-> Num(0)]),
     MakeOperation(OpType.LogicInvoke, [logic_id |-> Str("0xlg1"), callsite |-> Str("f")]),
     MakeOperation(OpType.AssetCreate, [symbol |-> Str("MOI"), supply |-> Num(1)])}

DeclaredParticipants ==
    {Obj([address |-> Str("0xa1"), lock_type |-> Num(LockType.ReadLock),
          notary |-> Bool(TRUE)]),
     Obj([address |-> Str("0xa3"), lock_type |-> Num(LockType.ReadLock),
          notary |-> Bool(FALSE)]),
     Obj([address |-> Str("0xa3"), lock_type |-> Num(LockType.NoLock),
          notary |-> Bool(TRUE)])}

DeclaredFunds ==
    {fund(Str("0xas1"), Num(9)), fund(Str("0xas2"), Num(9)), fund(Str("0xas2"), Num(8))}

GatherOperationsValues == SeqsUpTo(GatherOperations, MaxOperations) \ {<<>>}

\* the request of a sender, with the parts that vary
GatherRequest(payer, operations, participants, funds) ==
    Strip([sender |-> Obj([address |-> GoodAddress]), payer |-> payer,
           operations |-> Arr(operations), participants |-> participants,
           funds |-> funds])

\* operations of requests that carry fuel: identifiers that are hex strings
\* but no identifier of the kind, and a logic_id key whose value is null
FuelledOperations ==
    {MakeOperation(OpType.AssetTransfer,
               [beneficiary |-> Str("0xa3"), asset_id |-> Str("0xas1"), amount |-> Num(1)]),
     MakeOperation(OpType.AssetMint, [asset_id |-> Str("0xas2"), amount |-> Num(1)]),
     MakeOperation(OpType.AssetMint, [asset_id |-> Str("0x12"), amount |-> Num(1)]),
     MakeOperation(OpType.AssetBurn, [asset_id |-> Str(NotHex), amount |-> Num(1)]),
     MakeOperation(OpType.LogicInvoke, [logic_id |-> Str("0xlg1"), callsite |-> Str("f")]),
     MakeOperation(OpType.LogicInvoke, [logic_id |-> Null, callsite |-> Str("f")])}

\* a request with the fuel fields validateIxRequest asks for
FuelledRequest(fuel_limit, operations) ==
    Strip([sender |-> Obj([address |-> GoodAddress]), fuel_price |-> Num(1),
           fuel_limit |-> fuel_limit, operations |-> Arr(operations)])

InitGather ==
    /\ \/ \E fl \in {Absent, Num(1)},
             ops \in SeqsUpTo(FuelledOperations, MaxOperations) \ {<<>>} :
               gIx = FuelledRequest(fl, ops)
       \/ \E py \in {Absent, GoodAddress, Str("0xa2")}, ops \in GatherOperationsValues,
             ps \in {Absent} \cup {Arr(q) : q \in SeqsUpTo(DeclaredParticipants,
                                                           MaxParticipants)} :
               gIx = GatherRequest(py, ops, ps, Absent)
       \/ \E ops \in GatherOperationsValues,
             fs \in {Absent} \cup {Arr(q) : q \in SeqsUpTo(DeclaredFunds, MaxFunds)} :
               gIx = GatherRequest(Absent, ops, Absent, fs)
    /\ gParticipants = Null
    /\ gFunds = Null
    /\ gPc = "input"
    /\ OpIdle /\ IxIdle /\ WaitIdle /\ OtherIdle

CallInteraction ==
    /\ gPc = "input"
    /\ gParticipants' = interaction(gIx).participants
    /\ gFunds' = interaction(gIx).funds
    /\ gPc' = IF interaction(gIx).threw THEN "threw" ELSE "gathered"
    /\ UNCHANGED <<gIx, opVars, ixVars, wVars, otherVars>>

NextGather == CallInteraction

SpecGather == InitGather /\ [][NextGather]_vars

(***************************************************************************)
(* interaction-response.js: InteractionResponse.wait(timer)                *)
(*                                                                         *)
(* wTimer is the caller's timer object, wTimer0 its value at the call.     *)
(* A delay is kept in milliseconds (delayInSec * 1000), so that the        *)
(* default of 1.5 s is a whole number.  wInteraction tells whether the     *)
(* response already holds a confirmation.  wPolls counts the calls of      *)
(* provider.getInteraction, wLastPoll is the time of the last one,         *)
(* wSpaced tells whether every two consecutive polls were one delay        *)
(* apart, wAllPending whether every answer so far was a Pending            *)
(* interaction.  wClock is the time spent in setTimeout.                   *)
(***************************************************************************)
DefaultRetries == 80

DefaultDelayInMs == 1500

getDefaultTimer == [delayInMs |-> DefaultDelayInMs, retries |-> DefaultRetries]

Timers ==
    {getDefaultTimer}
        \cup [delayInMs : {0, 1000, 2000}, retries : (0 - 1)..MaxRetries]

\* what provider.getInteraction answers: an interaction that is Pending or
\* Finalized, the CustomError "error fetching interaction", or another error
Answers == {"Pending", "Finalized", "ErrorFetching", "OtherError"}

InitWait ==
    /\ wTimer \in Timers
    /\ wTimer0 = wTimer
    /\ wInteraction \in BOOLEAN
    /\ wRetries = 0 /\ wPolls = 0 /\ wClock = 0 /\ wLastPoll = -1
    /\ wAllPending = TRUE /\ wSpaced = TRUE
    /\ wOutcome = Null
    /\ wPc = "call"
    /\ OpIdle /\ IxIdle /\ GatherIdle /\ OtherIdle

\* the call of getInteraction that opens a round of the loop
wait_poll ==
    /\ wPolls' = wPolls + 1
    /\ wLastPoll' = wClock'
    /\ wSpaced' = (wSpaced /\ (wLastPoll # -1 => wClock' - wLastPoll = wTimer0.delayInMs))
    /\ wPc' = "polling"

\* wait(timer) up to its first await
wait_call ==
    /\ wPc = "call"
    /\ wRetries' = 0
    /\ UNCHANGED <<wTimer, wTimer0, wInteraction, wClock, wAllPending>>
    /\ IF wTimer.retries <= 0 \/ wTimer.delayInMs <= 0
       THEN /\ wOutcome' = Throw("INVALID_ARGUMENT")
            /\ wPc' = "done"
            /\ UNCHANGED <<wPolls, wLastPoll, wSpaced>>
       ELSE IF wInteraction
       THEN /\ wOutcome' = Str("confirmation")
            /\ wPc' = "done"
            /\ UNCHANGED <<wPolls, wLastPoll, wSpaced>>
       ELSE /\ wOutcome' = wOutcome
            /\ wait_poll
    /\ UNCHANGED <<opVars, ixVars, gVars, otherVars>>

\* the provider's answer arrives: the rest of the round, up to setTimeout
wait_answer(answer) ==
    /\ wPc = "polling"
    /\ wAllPending' = (wAllPending /\ answer = "Pending")
    /\ UNCHANGED <<wTimer0, wRetries, wPolls, wClock, wLastPoll, wSpaced>>
    /\ CASE answer = "Finalized" ->
              /\ wInteraction' = TRUE
              /\ wOutcome' = Str("confirmation")
              /\ wPc' = "done"
              /\ wTimer' = wTimer
         [] answer = "ErrorFetching" ->
              /\ wOutcome' = Throw("ACTION_REJECTED")
              /\ wPc' = "done"
              /\ UNCHANGED <<wTimer, wInteraction>>
         [] OTHER ->
              /\ wTimer' = [wTimer EXCEPT !.retries = @ - 1]
              /\ wPc' = "sleeping"
              /\ UNCHANGED <<wInteraction, wOutcome>>
    /\ UNCHANGED <<opVars, ixVars, gVars, otherVars>>

\* the timeout fires: retries++, the loop test, and the next round or the
\* Timeout error
wait_wake ==
    /\ wPc = "sleeping"
    /\ wClock' = wClock + wTimer0.delayInMs
    /\ wRetries' = wRetries + 1
    /\ UNCHANGED <<wTimer, wTimer0, wInteraction, wAllPending>>
    /\ IF wRetries + 1 < wTimer.retries
       THEN /\ wait_poll
            /\ wOutcome' = wOutcome
       ELSE /\ wOutcome' = Throw("TIMEOUT")
            /\ wPc' = "done"
            /\ UNCHANGED <<wPolls, wLastPoll, wSpaced>>
    /\ UNCHANGED <<opVars, ixVars, gVars, otherVars>>

NextWait == wait_call \/ (\E answer \in Answers : wait_answer(answer)) \/ wait_wake

SpecWait == InitWait /\ [][NextWait]_vars

(***************************************************************************)
(* Properties of validateOperation (checked under SpecOp)                  *)
(***************************************************************************)
\* a structured {field, message, value} result
IsInvalidResult(r) == r.t = "invalid" /\ DOMAIN r = {"t", "field", "message", "value"}

\* the operation types the registry of operations.ts lists
C4_RegisteredTypes == {0, 2, 3, 4, 6, 7, 9, 10, 11, 12}

C5_RequiredFieldsEnforced ==
    opPc = "validated" =>
        /\ (Get(opIn, "type").n = OpType.LogicDeploy /\ IsNil(Get(Get(opIn, "payload"), "manifest")))
                => opOut # Null
        /\ (Get(opIn, "type").n \in {OpType.LogicInvoke, OpType.LogicEnlist}
                /\ IsNil(Get(Get(opIn, "payload"), "logic_id"))) => opOut # Null
        /\ (Get(opIn, "type").n = OpType.AssetApprove /\ IsNil(Get(Get(opIn, "payload"), "timestamp")))
                => opOut # Null

\* the amount an operation carries: supply for AssetCreate, amount otherwise
C6_AmountOf(operation) ==
    IF Get(operation, "type").n = OpType.AssetCreate
    THEN Get(Get(operation, "payload"), "supply")
    ELSE Get(Get(operation, "payload"), "amount")

C6_AmountTypes ==
    {OpType.ParticipantCreate, OpType.AssetCreate, OpType.AssetMint, OpType.AssetBurn,
     OpType.AssetTransfer, OpType.AssetApprove, OpType.AssetRelease}

\* C6: for every registered operation type whose payload has an amount or a
\* supply, the validator returns a non-null result whenever that amount is
\* less than 0.
C6_NoNegativeAmountAccepted ==
    (/\ opPc = "validated"
     /\ Get(opIn, "type").n \in C6_AmountTypes
     /\ C6_AmountOf(opIn).t = "number"
     /\ C6_AmountOf(opIn).n < 0) => opOut # Null

(***************************************************************************)
(* Properties of validateIxRequest (checked under SpecIx)                  *)
(***************************************************************************)
\* the items of an array value, none for anything else
ItemsOf(v) == IF IsArray(v) THEN v.items ELSE <<>>

\* the field the validator of a registered operation reports, "" for none
C1_OperationField(operation) ==
    IF IsNil(Get(operation, "type")) THEN "type"
    ELSE IF IsNil(Get(operation, "payload")) THEN "payload"
    ELSE IF validateOperation(operation) = Null THEN ""
    ELSE validateOperation(operation).field

\* the positions of the operations that fail their check
C1_FailingOperations(ix) ==
    {i \in DOMAIN ItemsOf(Get(ix, "operations")) :
        C1_OperationField(ItemsOf(Get(ix, "operations"))[i]) # ""}

C1_Min(S) == CHOOSE i \in S : \A j \in S : i <= j

\* The fields that name the error of the first failing check in the stated
\* order: sender present, sender address, fuel_price present, fuel_limit
\* present, fuel_price >= 0, fuel_limit > 0, payer address, participants,
\* operations present, an array, non-empty, then the operations by ascending
\* index; none when no check fails.  A missing type or payload of operation i
\* may be named with or without the operations[i] prefix.
C1_ExpectedFields(ix) ==
    LET sender == Get(ix, "sender")
        fuel_price == Get(ix, "fuel_price")
        fuel_limit == Get(ix, "fuel_limit")
        payer == Get(ix, "payer")
        participants == Get(ix, "participants")
        operations == Get(ix, "operations")
    IN CASE IsNil(sender) -> {"sender"}
         [] ~(Get(sender, "address").t = "string"
              /\ Get(sender, "address").s \in ValidAddresses) -> {"address"}
         [] IsNil(fuel_price) -> {"fuel_price"}
         [] IsNil(fuel_limit) -> {"fuel_limit"}
         [] fuel_price.n < 0 -> {"fuel_price"}
         [] fuel_limit.n <= 0 -> {"fuel_limit"}
         [] ~IsNil(payer) /\ payer.s \notin ValidAddresses -> {"payer"}
         [] ~IsNil(participants) /\ ~IsArray(participants) -> {"participants"}
         [] \E i \in DOMAIN ItemsOf(participants) :
                Get(ItemsOf(participants)[i], "address").s \notin ValidAddresses
              -> {"address"}
         [] IsNil(operations) \/ ~IsArray(operations) \/ ItemsOf(operations) = <<>>
              -> {"operations"}
         [] C1_FailingOperations(ix) # {} ->
              LET i == C1_Min(C1_FailingOperations(ix))
                  f == C1_OperationField(ItemsOf(operations)[i])
              IN {"operations[" \o ToString(i - 1) \o "]." \o f}
                    \cup (IF f \in {"type", "payload"} THEN {f} ELSE {})
         [] OTHER -> {}

\* every operation of the request has a type with a registered validator
C1_OperationsHaveValidators(ix) ==
    \A i \in DOMAIN ItemsOf(Get(ix, "operations")) :
        LET type == Get(ItemsOf(Get(ix, "operations"))[i], "type")
        IN IsNil(type) \/ type.n \in C4_RegisteredTypes

\* C1: validateIxRequest returns the error of the first failing check, in the
\* order sender, sender address, fuel_price present, fuel_limit present,
\* fuel_price >= 0, fuel_limit > 0, payer, participants, operations present /
\* array / non-empty, then the operations by ascending index, the lowest
\* failing index i being reported with field operations[i].<field>; it returns
\* null when no check fails.
C1_FirstFailingCheckReported ==
    (ixPc = "validated" /\ C1_OperationsHaveValidators(ixReq)) =>
        IF C1_ExpectedFields(ixReq) = {}
        THEN ixOut = Null
        ELSE IsInvalidResult(ixOut) /\ ixOut.field \in C1_ExpectedFields(ixReq)

\* the participants value is present but malformed
C2_MalformedParticipants(ix) ==
    /\ ~IsNil(Get(ix, "participants"))
    /\ \/ ~IsArray(Get(ix, "participants"))
       \/ \E i \in DOMAIN ItemsOf(Get(ix, "participants")) :
              Get(ItemsOf(Get(ix, "participants"))[i], "address").s \notin ValidAddresses

\* C2: validateIxRequest never returns null for a request whose participants
\* value is present but malformed (not an array, or with an entry whose address
\* is not a valid address).
C2_MalformedParticipantsRejected ==
    (ixPc = "validated" /\ C2_MalformedParticipants(ixReq)) => ixOut # Null

C7_OperationAddresses(op) ==
    LET type == Get(op, "type").n
        payload == Get(op, "payload")
    IN CASE type = OpType.ParticipantCreate -> <<Get(payload, "address")>>
         [] type \in {OpType.AssetMint, OpType.AssetBurn} ->
              <<AssetId_getAddress(Get(payload, "asset_id"))>>
         [] type = OpType.AssetTransfer -> <<Get(payload, "beneficiary")>>
         [] type \in {OpType.LogicInvoke, OpType.LogicEnlist} ->
              <<LogicId_getAddress(Get(payload, "logic_id"))>>
         [] OTHER -> <<>>

RECURSIVE C7_Flatten(_)
C7_Flatten(seqs) == IF seqs = <<>> THEN <<>> ELSE Head(seqs) \o C7_Flatten(Tail(seqs))

C7_MutateLock(address) ==
    Obj([address |-> address, lock_type |-> Num(0), notary |-> Bool(FALSE)])

\* every occurrence of a participant, in the order sender, payer,
\* operation-derived addresses, declared participants
C7_Occurrences(ix) ==
    LET ops == Get(ix, "operations").items
        derived == C7_Flatten([i \in DOMAIN ops |-> C7_OperationAddresses(ops[i])])
    IN <<C7_MutateLock(Get(Get(ix, "sender"), "address"))>>
       \o (IF IsNil(Get(ix, "payer")) THEN <<>> ELSE <<C7_MutateLock(Get(ix, "payer"))>>)
       \o [i \in DOMAIN derived |-> C7_MutateLock(derived[i])]
       \o ItemsOf(Get(ix, "participants"))

\* the first occurrence of an address
C7_First(occurrences, address) ==
    occurrences[CHOOSE i \in DOMAIN occurrences :
                    /\ Get(occurrences[i], "address") = address
                    /\ \A j \in 1..(i - 1) : Get(occurrences[j], "address") # address]

\* C7: the gathered participant list has exactly one entry per distinct
\* address, the entry of the address's first occurrence in the order sender,
\* payer, operation-derived addresses, declared participants; sender and payer
\* are present with lock type MutateLock whatever is declared for them.
C7_OneEntryPerAddressFirstWins ==
    gPc = "gathered" =>
        LET list == gParticipants.items
            occurrences == C7_Occurrences(gIx)
        IN /\ \A i, j \in DOMAIN list :
                  Get(list[i], "address") = Get(list[j], "address") => i = j
           /\ {Get(list[i], "address") : i \in DOMAIN list}
                  = {Get(occurrences[i], "address") : i \in DOMAIN occurrences}
           /\ \A i \in DOMAIN list :
                  list[i] = C7_First(occurrences, Get(list[i], "address"))
           /\ \E i \in DOMAIN list :
                  list[i] = C7_MutateLock(Get(Get(gIx, "sender"), "address"))
           /\ ~IsNil(Get(gIx, "payer")) =>
                  \E i \in DOMAIN list : list[i] = C7_MutateLock(Get(gIx, "payer"))

\* a declared participant names the sender, another one an address an
\* operation brings in, and two of them name the same address
C7_Witness ==
    /\ gPc = "gathered"
    /\ ~IsNil(Get(gIx, "payer"))
    /\ LET declared == ItemsOf(Get(gIx, "participants"))
           ops == Get(gIx, "operations").items
       IN /\ \E i \in DOMAIN declared :
                 Get(declared[i], "address") = Get(Get(gIx, "sender"), "address")
          /\ \E i \in DOMAIN declared : \E j \in DOMAIN ops :
                 <<Get(declared[i], "address")>> = C7_OperationAddresses(ops[j])
          /\ Len(gParticipants.items) < Len(C7_Occurrences(gIx))

\* the operations of a request that move funds
C8_FundOperations(ix) ==
    {i \in DOMAIN Get(ix, "operations").items :
        Get(Get(ix, "operations").items[i], "type").n \in {2, 6, 7}}

C8_Payload(ix, i) == Get(Get(ix, "operations").items[i], "payload")

\* C8: for every AssetTransfer, AssetMint or AssetBurn operation of a request,
\* the gathered funds contain that operation's (asset_id, amount) pair, also
\* when several operations name the same asset_id with different amounts.
C8_EveryOperationFundGathered ==
    gPc = "gathered" =>
        \A i \in C8_FundOperations(gIx) :
            \E j \in DOMAIN gFunds.items :
                /\ Get(gFunds.items[j], "asset_id") = Get(C8_Payload(gIx, i), "asset_id")
                /\ Get(gFunds.items[j], "amount") = Get(C8_Payload(gIx, i), "amount")

\* the operations that name an asset, and the declared funds that do
C9_Touching(ix, asset) ==
    {i \in C8_FundOperations(ix) : Get(C8_Payload(ix, i), "asset_id") = asset}

C9_Declaring(ix, asset) ==
    {i \in DOMAIN ItemsOf(Get(ix, "funds")) :
        Get(ItemsOf(Get(ix, "funds"))[i], "asset_id") = asset}

C9_Max(S) == CHOOSE i \in S : \A j \in S : j <= i

\* C9: declared funds never override scanned ones.  For an asset_id named by a
\* transfer, mint or burn operation the gathered funds hold one entry, with
\* the amount of the (last) operation naming it, whatever is declared for it;
\* for a declared asset_id no operation names they hold one entry, the (first)
\* declared one with its amount unchanged.
C9_DeclaredFundsDoNotOverride ==
    gPc = "gathered" =>
        \A asset \in {Str(a) : a \in AssetIds} :
            LET entries == {j \in DOMAIN gFunds.items :
                               Get(gFunds.items[j], "asset_id") = asset}
                touching == C9_Touching(gIx, asset)
                declaring == C9_Declaring(gIx, asset)
            IN CASE touching # {} ->
                      /\ Cardinality(entries) = 1
                      /\ \A j \in entries :
                            Get(gFunds.items[j], "amount")
                              = Get(C8_Payload(gIx, C9_Max(touching)), "amount")
                 [] touching = {} /\ declaring # {} ->
                      /\ Cardinality(entries) = 1
                      /\ \A j \in entries :
                            gFunds.items[j]
                              = ItemsOf(Get(gIx, "funds"))[C1_Min(declaring)]
                 [] OTHER -> entries = {}

\* one asset is both named by an operation and declared with another amount,
\* another asset is declared only
C9_Witness ==
    /\ gPc = "gathered"
    /\ C9_Touching(gIx, Str("0xas1")) # {}
    /\ C9_Declaring(gIx, Str("0xas1")) # {}
    /\ C9_Touching(gIx, Str("0xas2")) = {}
    /\ C9_Declaring(gIx, Str("0xas2")) # {}

(***************************************************************************)
(* Properties of InteractionResponse.wait (checked under SpecWait)         *)
(***************************************************************************)
\* C10: when the interaction is never reported finalized (every poll is
\* answered with a Pending interaction), wait(timer) polls the provider
\* exactly timer.retries times, one delay apart, and then fails with a
\* Timeout error.
C10_PollsExactlyRetriesTimes ==
    (/\ wPc = "done"
     /\ wOutcome # Throw("INVALID_ARGUMENT")
     /\ wPolls > 0
     /\ wAllPending)
        => /\ wPolls = wTimer0.retries
           /\ wSpaced
           /\ wOutcome = Throw("TIMEOUT")

(***************************************************************************)
(* base-provider: BaseProvider.waitForInteraction(interactionHash, timeout) *)
(*                                                                         *)
(* rPc is the position of the promise executor, rTimeout the timeout in    *)
(* seconds, rIntervalId and rTimeoutId                                     *)
(* tell whether the interval and the timeout timer are scheduled, rSettled *)
(* is the state of the returned promise and rInFlight the number of        *)
(* checkReceipt calls that await getInteractionReceipt.  rPolls counts the *)
(* calls of getInteractionReceipt, rPollsAfterSettle those issued once the *)
(* promise was settled.  A receipt is one of: none (null, or the call      *)
(* failed), plain (processReceipt returns null), noException (the result's *)
(* error decodes to null), exception (it decodes to an exception) and      *)
(* unprocessable (processReceipt throws).                                  *)
(***************************************************************************)
MaxPolls == 4

defaultTimeout == 120

Timeouts == {Undefined, Num(1), Num(30)}

Receipts == {"none", "plain", "noException", "exception", "unprocessable"}

\* resolve and reject act on a pending promise only
settle(settled, outcome) == IF settled = "pending" THEN outcome ELSE settled

\* what checkReceipt does to the promise once it holds a receipt
checkReceipt(receipt, settled) ==
    CASE receipt \in {"plain", "noException"} -> settle(settled, "resolved")
      [] receipt = "exception" -> settle(settled, "rejected")
      [] OTHER -> settled

InitReceipt ==
    /\ ReceiptIdle
    /\ OpIdle /\ IxIdle /\ GatherIdle /\ WaitIdle /\ IdIdle /\ DecodeIdle /\ LateIdle

\* the executor calls checkReceipt, which calls getInteractionReceipt
waitForInteraction_call(timeout) ==
    /\ rPc = "idle"
    /\ rTimeout' = IF timeout = Undefined THEN Num(defaultTimeout) ELSE timeout
    /\ rPc' = "first"
    /\ rPolls' = 1
    /\ rInFlight' = 1
    /\ UNCHANGED <<rIntervalId, rTimeoutId, rSettled, rPollsAfterSettle>>
    /\ UNCHANGED <<opVars, ixVars, gVars, wVars, idVars, dVars, lateVars>>

\* the first checkReceipt ends: clearTimers finds both ids undefined; unless
\* checkReceipt threw, the executor goes on to schedule both timers
waitForInteraction_first(receipt) ==
    /\ rPc = "first"
    /\ rInFlight' = rInFlight - 1
    /\ rSettled' = checkReceipt(receipt, rSettled)
    /\ IF receipt = "unprocessable"
       THEN /\ rPc' = "abandoned"
            /\ UNCHANGED <<rIntervalId, rTimeoutId>>
       ELSE /\ rPc' = "armed"
            /\ rIntervalId' = TRUE
            /\ rTimeoutId' = TRUE
    /\ UNCHANGED <<rTimeout, rPolls, rPollsAfterSettle>>
    /\ UNCHANGED <<opVars, ixVars, gVars, wVars, idVars, dVars, lateVars>>

\* the interval timer fires: checkReceipt calls getInteractionReceipt
waitForInteraction_interval ==
    /\ rIntervalId
    /\ rPolls < MaxPolls
    /\ rPolls' = rPolls + 1
    /\ rInFlight' = rInFlight + 1
    /\ rPollsAfterSettle' = IF rSettled = "pending" THEN rPollsAfterSettle
                            ELSE rPollsAfterSettle + 1
    /\ UNCHANGED <<rPc, rTimeout, rIntervalId, rTimeoutId, rSettled>>
    /\ UNCHANGED <<opVars, ixVars, gVars, wVars, idVars, dVars, lateVars>>

\* a checkReceipt started by the interval timer ends
waitForInteraction_receipt(receipt) ==
    /\ rPc = "armed"
    /\ rInFlight > 0
    /\ rInFlight' = rInFlight - 1
    /\ rSettled' = checkReceipt(receipt, rSettled)
    /\ IF receipt = "none"
       THEN UNCHANGED <<rIntervalId, rTimeoutId>>
       ELSE rIntervalId' = FALSE /\ rTimeoutId' = FALSE
    /\ UNCHANGED <<rPc, rTimeout, rPolls, rPollsAfterSettle>>
    /\ UNCHANGED <<opVars, ixVars, gVars, wVars, idVars, dVars, lateVars>>

\* the timeout timer fires
waitForInteraction_timeout ==
    /\ rTimeoutId
    /\ rTimeoutId' = FALSE
    /\ rIntervalId' = FALSE
    /\ rSettled' = settle(rSettled, "timeout")
    /\ UNCHANGED <<rPc, rTimeout, rInFlight, rPolls, rPollsAfterSettle>>
    /\ UNCHANGED <<opVars, ixVars, gVars, wVars, idVars, dVars, lateVars>>

NextReceipt ==
    \/ \E timeout \in Timeouts : waitForInteraction_call(timeout)
    \/ \E receipt \in Receipts : waitForInteraction_first(receipt)
    \/ waitForInteraction_interval
    \/ \E receipt \in Receipts : waitForInteraction_receipt(receipt)
    \/ waitForInteraction_timeout

SpecReceipt == InitReceipt /\ [][NextReceipt]_vars

\* C11: once the promise returned by waitForInteraction is settled, neither
\* the interval timer nor the timeout timer of the call is scheduled and no
\* further receipt poll has been issued.
C11_NoTimersAfterSettle ==
    rSettled # "pending" =>
        /\ ~rIntervalId
        /\ ~rTimeoutId
        /\ rPollsAfterSettle = 0

(***************************************************************************)
(* js-moi-identifiers: byte arrays and hex strings                         *)
(*                                                                         *)
(* A Uint8Array is the sequence of its bytes (byte i of the array is       *)
(* element i + 1), a hex string the sequence of the digits that follow     *)
(* "0x", each a number below 16.                                           *)
(***************************************************************************)
Bytes(b) == [t |-> "bytes", b |-> b]

Hex(h) == [t |-> "hex", h |-> h]

RECURSIVE BitAnd(_, _)
BitAnd(a, b) ==
    IF a = 0 \/ b = 0 THEN 0
    ELSE (a % 2) * (b % 2) + 2 * BitAnd(a \div 2, b \div 2)

RECURSIVE BitOr(_, _)
BitOr(a, b) ==
    IF a = 0 THEN b
    ELSE IF b = 0 THEN a
    ELSE (IF a % 2 = 1 \/ b % 2 = 1 THEN 1 ELSE 0) + 2 * BitOr(a \div 2, b \div 2)

RECURSIVE Pow2(_)
Pow2(n) == IF n = 0 THEN 1 ELSE 2 * Pow2(n - 1)

\* bytes[i] where the result goes into >> or &: undefined counts as 0
ByteAt(bytes, i) == IF i + 1 <= Len(bytes) THEN bytes[i + 1] ELSE 0

\* bytes.slice(from, to)
Slice(bytes, from, to) ==
    LET last == IF to < Len(bytes) THEN to ELSE Len(bytes)
    IN  IF from >= last THEN <<>> ELSE [i \in 1..(last - from) |-> bytes[from + i]]

hexToBytes(str) ==
    IF Len(str) % 2 # 0 THEN Throw("Invalid hex string")
    ELSE Bytes([i \in 1..(Len(str) \div 2) |-> 16 * str[2 * i - 1] + str[2 * i]])

bytesToHex(data) ==
    Hex([i \in 1..(2 * Len(data)) |->
            IF i % 2 = 1 THEN data[(i + 1) \div 2] \div 16 ELSE data[i \div 2] % 16])

\* js-moi-utils isHex(value, byteLength) on a hex string
isHexOfLength(value, byteLength) ==
    /\ value.t = "hex"
    /\ byteLength.t = "number" => Len(value.h) = 2 * byteLength.n

\* js-moi-utils isNullBytes
isNullBytes(bytes) == \A i \in 1..Len(bytes) : bytes[i] = 0

\* DataView.getUint32(0, littleEndian) of a four-byte buffer
getUint32(b, littleEndian) ==
    IF littleEndian
    THEN b[1] + 256 * b[2] + 65536 * b[3] + 16777216 * b[4]
    ELSE b[4] + 256 * b[3] + 65536 * b[2] + 16777216 * b[1]

\* DataView.setUint32(28, value, littleEndian) on a 32-byte buffer
setUint32At28(buff, value, littleEndian) ==
    LET byte(k) == (value \div Pow2(8 * k)) % 256
    IN  [i \in 1..Len(buff) |->
            IF i <= 28 THEN buff[i]
            ELSE IF littleEndian THEN byte(i - 29) ELSE byte(32 - i)]

(***************************************************************************)
(* identifier-kind, identifier-tag and flags                               *)
(***************************************************************************)
IdentifierKind == [Participant |-> 0, Asset |-> 1, Logic |-> 2]

maxIdentifierKind == IdentifierKind.Logic

identifierV0 == 0

\* kindSupport.get(kind) ?? 0
kindSupport(kind) == 0

TagParticipantV0 == BitOr(IdentifierKind.Participant * 16, identifierV0)

TagAssetV0 == BitOr(IdentifierKind.Asset * 16, identifierV0)

TagLogicIdV0 == BitOr(IdentifierKind.Logic * 16, identifierV0)

IdentifierTag_getKind(tag) == tag \div 16

IdentifierTag_getVersion(tag) == tag % 16

IdentifierTag_validate(tag) ==
    IF IdentifierTag_getKind(tag) > maxIdentifierKind
    THEN [t |-> "error", message |-> "Unsupported identifier kind."]
    ELSE IF IdentifierTag_getVersion(tag) > kindSupport(IdentifierTag_getKind(tag))
    THEN [t |-> "error", message |-> "Unsupported identifier version."]
    ELSE Null

\* new IdentifierTag(tag): the tag, or the error thrown
IdentifierTag_new(tag) ==
    IF IdentifierTag_validate(tag) # Null
    THEN Throw(IdentifierTag_validate(tag).message)
    ELSE Num(tag)

\* flagMasks.get(tag) ?? 0
flagMasks(tag) ==
    CASE tag = TagParticipantV0 -> 127
      [] tag = TagLogicIdV0 -> 120
      [] tag = TagAssetV0 -> 127
      [] OTHER -> 0

\* a Flag of kind `kind`, bit `index`, supported from `version`
Flag(kind, index, version) == [kind |-> kind, index |-> index, version |-> version]

Flag_supports(flag, tag) ==
    /\ flag.kind = IdentifierTag_getKind(tag)
    /\ IdentifierTag_getVersion(tag) >= flag.version

setFlag(value, index, flag) ==
    IF flag THEN BitOr(value, Pow2(index))
    ELSE value - BitAnd(value, Pow2(index))

getFlag(value, index) == BitAnd(value, Pow2(index)) # 0

(***************************************************************************)
(* Identifier, AssetId, LogicId and ParticipantId                          *)
(*                                                                         *)
(* An identifier object is its class and the byte array it holds.  A       *)
(* constructor or a static method yields the object, null, a reason, or    *)
(* the error it throws.                                                    *)
(***************************************************************************)
Object(class, bytes) == [t |-> "object", class |-> class, bytes |-> bytes]

Reason(why) == [t |-> "reason", why |-> why]

IsThrow(r) == r.t = "throw"

\* value instanceof Uint8Array ? value : hexToBytes(value)
asBytes(value) == IF value.t = "bytes" THEN value ELSE hexToBytes(value.h)

\* the static getTag(bytes) of the kind-specific classes
getTag(bytes) == IdentifierTag_new(ByteAt(bytes, 0))

Identifier_new(value) ==
    IF Len(value.b) # 32
    THEN Throw("Invalid byte length for identifier. Expected 32 bytes.")
    ELSE Object("Identifier", value.b)

Identifier_fromHex(value) ==
    IF ~isHexOfLength(value, Num(32))
    THEN Throw("Invalid hex value for identifier. Expected 32 bytes hex string.")
    ELSE Identifier_new(hexToBytes(value.h))

Identifier_getTag(bytes) == IdentifierTag_new(ByteAt(bytes, 0))

Identifier_getFlags(bytes) == bytes[2]

Identifier_getMetadata(bytes) == <<bytes[3], bytes[4]>>

Identifier_getFingerPrint(bytes) == Slice(bytes, 4, 28)

Identifier_getVariantBytes(bytes) == Slice(bytes, 28, Len(bytes))

Identifier_getVariant(bytes) == getUint32(Identifier_getVariantBytes(bytes), FALSE)

Identifier_isVariant(bytes) ==
    \A i \in 1..Len(Identifier_getVariantBytes(bytes)) :
        Identifier_getVariantBytes(bytes)[i] = 0

Identifier_toBytes(bytes) == [i \in 1..Len(bytes) |-> bytes[i]]

Identifier_toHex(bytes) == bytesToHex(bytes)

AssetId_validate(value) ==
    LET asset == asBytes(value)
        tag == getTag(asset.b)
    IN  IF IsThrow(asset) THEN asset
        ELSE IF Len(asset.b) # 32
        THEN Reason("Invalid length. Expected a 32-byte identifier.")
        ELSE IF IsThrow(tag) THEN tag
        ELSE IF IdentifierTag_getKind(tag.n) # IdentifierKind.Asset
        THEN Reason("Invalid identifier kind. Expected a asset identifier.")
        ELSE IF BitAnd(ByteAt(asset.b, 1), flagMasks(tag.n)) # 0
        THEN Reason("Invalid Flags. Unsupported flags for identifier")
        ELSE Null

AssetId_new(value) ==
    LET super == Identifier_new(value)
        error == AssetId_validate(Bytes(Identifier_toBytes(value.b)))
    IN  IF IsThrow(super) THEN super
        ELSE IF IsThrow(error) THEN error
        ELSE IF error # Null THEN Throw("Invalid asset identifier.")
        ELSE Object("AssetId", value.b)

LogicId_validate(value) ==
    LET asset == asBytes(value)
        tag == getTag(asset.b)
    IN  IF IsThrow(asset) THEN asset
        ELSE IF IsThrow(tag) THEN tag
        ELSE IF IdentifierTag_getKind(tag.n) # IdentifierKind.Participant
        THEN Reason("Invalid identifier kind. Expected a asset identifier.")
        ELSE IF BitAnd(ByteAt(asset.b, 1), flagMasks(tag.n)) # 0
        THEN Reason("Invalid Flags. Unsupported flags for identifier")
        ELSE Null

LogicId_new(value) ==
    LET super == Identifier_new(value)
        error == LogicId_validate(Bytes(Identifier_toBytes(value.b)))
    IN  IF IsThrow(super) THEN super
        ELSE IF IsThrow(error) THEN error
        ELSE IF error # Null THEN Throw("Invalid logic identifier.")
        ELSE Object("LogicId", value.b)

\* participant[1] reads a property of the ParticipantId object, not a byte:
\* it is undefined, and undefined & mask is 0
ParticipantId_validate(bytes) ==
    LET tag == Identifier_getTag(bytes)
        error == IdentifierTag_validate(tag.n)
        participant_1 == 0
    IN  IF IsThrow(tag) THEN tag
        ELSE IF error # Null THEN error
        ELSE IF IdentifierTag_getKind(tag.n) # IdentifierKind.Participant
        THEN [t |-> "error",
              message |-> "Invalid identifier kind. Expected a participant identifier."]
        ELSE IF BitAnd(participant_1, flagMasks(tag.n)) # 0
        THEN [t |-> "error", message |-> "Invalid participant identifier flags."]
        ELSE Null

ParticipantId_new(value) ==
    LET error == ParticipantId_validate(value.b)
    IN  IF Len(value.b) # 32
        THEN Throw("Invalid byte length for participant identifier. Expected 32 bytes.")
        ELSE IF IsThrow(error) THEN error
        ELSE IF error # Null THEN Throw("Invalid participant identifier.")
        ELSE Object("ParticipantId", value.b)

ParticipantId_fromHex(value) ==
    IF ~isHexOfLength(value, Undefined) THEN Throw("Invalid hex value.")
    ELSE IF IsThrow(hexToBytes(value.h)) THEN hexToBytes(value.h)
    ELSE ParticipantId_new(hexToBytes(value.h))

ParticipantId_getVariant(bytes) == getUint32(Slice(bytes, 28, Len(bytes)), TRUE)

ParticipantId_isVariant(bytes) == ~isNullBytes(Slice(bytes, 28, Len(bytes)))

RECURSIVE setFlags(_, _, _)
\* the loop over flags: the flags byte, or the error thrown
setFlags(flags, i, metadata_1) ==
    IF i > Len(flags) THEN Num(metadata_1)
    ELSE IF ~Flag_supports(flags[i], TagParticipantV0)
    THEN Throw("Unsupported flag for participant identifier.")
    ELSE setFlags(flags, i + 1, setFlag(metadata_1, flags[i].index, TRUE))

generateParticipantIdV0(fingerprint, variant, flags) ==
    LET metadata_1 == setFlags(flags, 1, 0)
        metadata == <<TagParticipantV0, metadata_1.n, 0, 0>>
        buff == metadata \o fingerprint \o <<0, 0, 0, 0>>
    IN  IF Len(fingerprint) # 24
        THEN Throw("Invalid fingerprint length. Expected 24 bytes.")
        ELSE IF IsThrow(metadata_1) THEN metadata_1
        ELSE ParticipantId_new(Bytes(setUint32At28(buff, variant, TRUE)))

(***************************************************************************)
(* The byte arrays and hex strings handed to the identifier classes.       *)
(***************************************************************************)
MaxWrites == 1

Tags == {0, 1, 16, 32, 48, 240}

FlagBytes == {0, 1, 8, 128}

Fingerprint == [i \in 1..24 |-> 171]

VariantBytes == {<<0, 0, 0, 0>>, <<0, 0, 0, 1>>, <<1, 0, 0, 0>>, <<0, 2, 0, 2>>}

Variants == {0, 1, 258, 16777216}

MakeId(tag, flags, variant) == <<tag, flags, 0, 1>> \o Fingerprint \o variant

\* a 32-byte array cut to 31 bytes, as it is, or extended to 33, or empty
Resize(bytes, how) ==
    CASE how = "short" -> Slice(bytes, 0, 31)
      [] how = "long" -> bytes \o <<0>>
      [] how = "empty" -> <<>>
      [] OTHER -> bytes

Resizes == {"short", "exact", "long", "empty"}

\* a hex string with its last digit dropped has an odd number of digits
DropDigit(h, drop) == IF drop /\ Len(h) > 0 THEN SubSeq(h, 1, Len(h) - 1) ELSE h

Flags ==
    { <<>>,
      <<Flag(IdentifierKind.Participant, 0, 0)>>,
      <<Flag(IdentifierKind.Participant, 7, 0)>>,
      <<Flag(IdentifierKind.Participant, 0, 0), Flag(IdentifierKind.Participant, 7, 0)>>,
      <<Flag(IdentifierKind.Asset, 0, 0)>> }

Classes == {"Identifier", "AssetId", "LogicId", "ParticipantId"}

WriteIndices == {0, 1, 31}

WriteValues == {0, 255}

(***************************************************************************)
(* One call of a constructor, of fromHex, of validate or of                *)
(* generateParticipantIdV0, then reads of the object and writes of the     *)
(* caller into the arrays it holds.  idArg is the caller's argument,       *)
(* idShared tells whether the object holds that very array, idBytes0 is    *)
(* the object's value when it was built, idCopy an array the caller got    *)
(* from toBytes, getMetadata or getFingerPrint.                            *)
(***************************************************************************)
InitId ==
    /\ IdIdle
    /\ OpIdle /\ IxIdle /\ GatherIdle /\ WaitIdle /\ ReceiptIdle /\ DecodeIdle /\ LateIdle

construct(class, value) ==
    CASE class = "Identifier" -> Identifier_new(value)
      [] class = "AssetId" -> AssetId_new(value)
      [] class = "LogicId" -> LogicId_new(value)
      [] class = "ParticipantId" -> ParticipantId_new(value)

Returned(call, out, shared, arg) ==
    /\ idPc' = "done"
    /\ idCall' = call
    /\ idOut' = out
    /\ idArg' = arg
    /\ idShared' = (shared /\ out.t = "object")
    /\ idBytes0' = IF out.t = "object" THEN Bytes(out.bytes) ELSE Null
    /\ UNCHANGED <<idCopy, idWrites>>
    /\ UNCHANGED <<opVars, ixVars, gVars, wVars, rVars, dVars, lateVars>>

\* new Identifier(value), new AssetId(value), ...: the object keeps `value`
CallNew(class, value) ==
    /\ idPc = "idle"
    /\ Returned([op |-> "new", class |-> class], construct(class, value), TRUE, value)

\* Identifier.fromHex(value), ParticipantId.fromHex(value)
CallFromHex(class, value) ==
    /\ idPc = "idle"
    /\ Returned([op |-> "fromHex", class |-> class],
             IF class = "Identifier" THEN Identifier_fromHex(value)
             ELSE ParticipantId_fromHex(value),
             FALSE, value)

\* AssetId.validate(value), LogicId.validate(value)
CallValidate(class, value) ==
    /\ idPc = "idle"
    /\ Returned([op |-> "validate", class |-> class],
             IF class = "AssetId" THEN AssetId_validate(value)
             ELSE LogicId_validate(value),
             FALSE, value)

\* ParticipantId.generateParticipantIdV0(fingerprint, variant, ...flags)
CallGenerate(fingerprint, variant, flags) ==
    /\ idPc = "idle"
    /\ Returned([op |-> "generate", class |-> "ParticipantId", variant |-> variant],
             generateParticipantIdV0(fingerprint, variant, flags),
             FALSE, Bytes(fingerprint))

\* toBytes(), getMetadata(), getFingerPrint(): a new array each
ReadArray(method) ==
    /\ idPc = "done"
    /\ idOut.t = "object"
    /\ idCopy = Null
    /\ idCopy' = CASE method = "toBytes" -> Bytes(Identifier_toBytes(idOut.bytes))
                   [] method = "getMetadata" -> Bytes(Identifier_getMetadata(idOut.bytes))
                   [] method = "getFingerPrint" ->
                        Bytes(Identifier_getFingerPrint(idOut.bytes))
    /\ UNCHANGED <<idCall, idOut, idShared, idArg, idBytes0, idWrites, idPc>>
    /\ UNCHANGED <<opVars, ixVars, gVars, wVars, rVars, dVars, lateVars>>

\* the caller writes into the array it passed to the constructor
WriteArgument(i, byte) ==
    /\ idPc = "done"
    /\ idOut.t = "object"
    /\ idArg.t = "bytes"
    /\ i < Len(idArg.b)
    /\ idWrites < MaxWrites
    /\ idWrites' = idWrites + 1
    /\ idArg' = Bytes([idArg.b EXCEPT ![i + 1] = byte])
    /\ idOut' = IF idShared THEN [idOut EXCEPT !.bytes = idArg'.b] ELSE idOut
    /\ UNCHANGED <<idCall, idShared, idBytes0, idCopy, idPc>>
    /\ UNCHANGED <<opVars, ixVars, gVars, wVars, rVars, dVars, lateVars>>

\* the caller writes into an array a read returned
WriteCopy(i, byte) ==
    /\ idPc = "done"
    /\ idCopy # Null
    /\ i < Len(idCopy.b)
    /\ idWrites < MaxWrites
    /\ idWrites' = idWrites + 1
    /\ idCopy' = Bytes([idCopy.b EXCEPT ![i + 1] = byte])
    /\ UNCHANGED <<idCall, idOut, idShared, idArg, idBytes0, idPc>>
    /\ UNCHANGED <<opVars, ixVars, gVars, wVars, rVars, dVars, lateVars>>

NextId ==
    \/ \E class \in Classes, tag \in Tags, flags \in FlagBytes, variant \in VariantBytes,
          how \in Resizes :
            CallNew(class, Bytes(Resize(MakeId(tag, flags, variant), how)))
    \/ \E class \in {"Identifier", "ParticipantId"}, tag \in Tags, flags \in FlagBytes,
          variant \in VariantBytes, how \in Resizes, drop \in BOOLEAN :
            CallFromHex(class,
                Hex(DropDigit(bytesToHex(Resize(MakeId(tag, flags, variant), how)).h, drop)))
    \/ \E class \in {"AssetId", "LogicId"}, tag \in Tags, flags \in FlagBytes,
          variant \in VariantBytes, how \in Resizes, hex \in BOOLEAN :
            CallValidate(class,
                IF hex THEN bytesToHex(Resize(MakeId(tag, flags, variant), how))
                ELSE Bytes(Resize(MakeId(tag, flags, variant), how)))
    \/ \E variant \in Variants, flags \in Flags, short \in BOOLEAN :
            CallGenerate(IF short THEN Slice(Fingerprint, 0, 23) ELSE Fingerprint,
                         variant, flags)
    \/ \E method \in {"toBytes", "getMetadata", "getFingerPrint"} : ReadArray(method)
    \/ \E i \in WriteIndices, byte \in WriteValues : WriteArgument(i, byte)
    \/ \E i \in WriteIndices, byte \in WriteValues : WriteCopy(i, byte)

SpecId == InitId /\ [][NextId]_vars

\* the call has returned an identifier object
IdBuilt == idPc = "done" /\ idOut.t = "object"

\* the call has failed: it threw, or validate returned a reason
IdFailed == idPc = "done" /\ idOut.t \in {"throw", "reason", "error"}

\* the number of bytes the argument decodes to; -1 for a hex string with an
\* odd number of digits
DecodedLength(value) ==
    IF value.t = "bytes" THEN Len(value.b)
    ELSE IF Len(value.h) % 2 = 0 THEN Len(value.h) \div 2
    ELSE 0 - 1

\* C12: a constructor, fromHex or validate called with a value that does not
\* decode to exactly 32 bytes fails, and every identifier object holds 32
\* bytes.
C12_LengthInvariant ==
    /\ (idPc = "done" /\ idCall.op \in {"new", "fromHex", "validate"}
            /\ DecodedLength(idArg) # 32) => IdFailed
    /\ IdBuilt => Len(idOut.bytes) = 32

\* the kind a kind-specific class stands for
OwnKind(class) ==
    CASE class = "AssetId" -> IdentifierKind.Asset
      [] class = "LogicId" -> IdentifierKind.Logic
      [] class = "ParticipantId" -> IdentifierKind.Participant

KindSpecific == {"AssetId", "LogicId", "ParticipantId"}

\* the bytes the argument of the call decodes to (the digits are even)
Decoded(value) == IF value.t = "bytes" THEN value.b ELSE hexToBytes(value.h).b

KindOf(bytes) == ByteAt(bytes, 0) \div 16

\* C13: validate of a kind-specific class fails on a value whose tag has
\* another kind, and an object of a kind-specific class has the kind of its
\* class.
C13_OwnKindOnly ==
    /\ (idPc = "done" /\ idCall.op = "validate" /\ DecodedLength(idArg) = 32
            /\ KindOf(Decoded(idArg)) # OwnKind(idCall.class)) => IdFailed
    /\ (IdBuilt /\ idOut.class \in KindSpecific) =>
            KindOf(idBytes0.b) = OwnKind(idOut.class)

\* C14: an object of a kind-specific class has, when it is built, no flag
\* bit set that the mask of its tag rules out.
C14_NoUnsupportedFlag ==
    (IdBuilt /\ idOut.class \in KindSpecific) =>
        BitAnd(idBytes0.b[2], flagMasks(idBytes0.b[1])) = 0

\* 32 bytes, the class's own kind in a supported version, no flag bit the
\* mask rules out
WellFormed(class, bytes) ==
    /\ Len(bytes) = 32
    /\ KindOf(bytes) = OwnKind(class)
    /\ bytes[1] % 16 <= kindSupport(KindOf(bytes))
    /\ BitAnd(bytes[2], flagMasks(bytes[1])) = 0

\* C15: on a well-formed value validate returns null and the constructor
\* builds the object; validate returns a reason only for a value that is not
\* well-formed.
C15_WellFormedAccepted ==
    (idPc = "done" /\ idCall.op \in {"new", "validate"} /\ idCall.class \in KindSpecific
        /\ DecodedLength(idArg) >= 0) =>
        /\ WellFormed(idCall.class, Decoded(idArg)) =>
              IF idCall.op = "validate" THEN idOut = Null ELSE idOut.t = "object"
        /\ idOut.t = "reason" => ~WellFormed(idCall.class, Decoded(idArg))

\* C16: the tag of an identifier object, as it was built, has a known kind
\* and a supported version, so getTag() does not throw.
C16_TagValidatedAtConstruction ==
    IdBuilt =>
        /\ ~IsThrow(Identifier_getTag(idBytes0.b))
        /\ KindOf(idBytes0.b) <= maxIdentifierKind
        /\ idBytes0.b[1] % 16 <= kindSupport(KindOf(idBytes0.b))

\* bytes 28..31 are not all zero
NonzeroVariant(bytes) == \E i \in 29..32 : bytes[i] # 0

\* C17: isVariant() is true exactly when one of bytes 28..31 is nonzero, for
\* the Identifier methods and for those of ParticipantId.
C17_IsVariantIffNonzero ==
    IdBuilt =>
        /\ Identifier_isVariant(idOut.bytes) = NonzeroVariant(idOut.bytes)
        /\ idOut.class = "ParticipantId" =>
              ParticipantId_isVariant(idOut.bytes) = NonzeroVariant(idOut.bytes)

\* bytes 28..31 read as a big-endian unsigned 32-bit integer
BigEndianVariant(bytes) ==
    16777216 * bytes[29] + 65536 * bytes[30] + 256 * bytes[31] + bytes[32]

\* C18: getVariant() is the big-endian reading of bytes 28..31, the same for
\* Identifier and ParticipantId, and it is the variant an id was generated
\* with.
C18_VariantBigEndian ==
    IdBuilt =>
        /\ Identifier_getVariant(idOut.bytes) = BigEndianVariant(idOut.bytes)
        /\ idOut.class = "ParticipantId" =>
              ParticipantId_getVariant(idOut.bytes) = Identifier_getVariant(idOut.bytes)
        /\ idCall.op = "generate" =>
              /\ ParticipantId_getVariant(idOut.bytes) = idCall.variant
              /\ Identifier_getVariant(idOut.bytes) = idCall.variant

\* C19: whatever the caller writes into the array it passed or into an array
\* a read returned, the object's bytes (hence toHex(), toBytes(), getTag()
\* and getFlags()) are those it was built with.
C19_NeverMutated ==
    IdBuilt =>
        /\ idOut.bytes = idBytes0.b
        /\ Identifier_toHex(idOut.bytes) = Identifier_toHex(idBytes0.b)
        /\ Identifier_getTag(idOut.bytes) = Identifier_getTag(idBytes0.b)
        /\ Identifier_getFlags(idOut.bytes) = Identifier_getFlags(idBytes0.b)

(***************************************************************************)
(* ManifestCoder: the decode paths.  A payload is a hex string: "0x" is    *)
(* the empty payload, "0xe1" and "0xe2" encode exceptions, "0x0a" and      *)
(* "0x0b" encode values, "0xff" decodes to nothing.                        *)
(***************************************************************************)
Payloads == {"0x", "0xe1", "0xe2", "0x0a", "0x0b", "0xff"}

Routines == {"Seed", "BalanceOf"}

Events == {"Transfer"}

StateFields == {"name", "supply"}

Exception(class, error, trace) ==
    [t |-> "exception", class |-> class, error |-> error, trace |-> trace]

DecodedValue(payload) == [t |-> "value", of |-> payload]

decodeException(error) ==
    CASE error = "0x" -> Null
      [] error = "0xe1" ->
            Exception("string", "Something went wrong", <<"function1()", "function2()">>)
      [] error = "0xe2" -> Exception("panic", "out of fuel", <<>>)
      [] OTHER -> Throw("cannot decode the exception")

decodeOutput(callsite, output) ==
    IF output = "0x" THEN Null
    ELSE IF callsite \notin Routines THEN Throw("routine not found")
    ELSE IF output \in {"0x0a", "0x0b"} THEN DecodedValue(output)
    ELSE Throw("cannot decode the output")

decodeEventOutput(event, logData) ==
    IF logData = "0x" THEN Null
    ELSE IF event \notin Events THEN Throw("event not found")
    ELSE IF logData \in {"0x0a", "0x0b"} THEN DecodedValue(logData)
    ELSE Throw("cannot decode the log")

decodeState(data, field, fields) ==
    IF data = "0x" THEN Null
    ELSE IF field \notin fields THEN Throw("field not found")
    ELSE IF data \in {"0x0a", "0x0b"} THEN DecodedValue(data)
    ELSE Throw("cannot decode the state")

(***************************************************************************)
(* The callers of decodeException: LogicDriver.getLogicId, the callback of *)
(* a callsite that does not mutate, and LogicFactory.processResult.        *)
(***************************************************************************)
ThrowCode(message, code) == [t |-> "throw", message |-> message, code |-> code]

\* results.at(0)
At0(results) == IF Len(results) = 0 THEN Undefined ELSE results[1]

\* the result of getLogicId: what it returns or throws, and the logic id set
getLogicId(results) ==
    LET result == At0(results)
        exception == decodeException(result.payload.error)
        logicId == LogicId_new(asBytes(Hex(result.payload.logic_id)))
    IN  IF result = Undefined \/ result.type # OpType.LogicDeploy
        THEN [out |-> ThrowCode("Expected result of logic deploy got something else.",
                                "UNKNOWN_ERROR"),
              logicId |-> Null]
        ELSE IF IsThrow(exception) THEN [out |-> exception, logicId |-> Null]
        ELSE IF exception # Null
        THEN [out |-> ThrowCode(exception.error, "CALL_EXCEPTION"), logicId |-> Null]
        ELSE IF IsThrow(logicId) THEN [out |-> logicId, logicId |-> Null]
        ELSE [out |-> logicId, logicId |-> logicId]

\* the callback with the test made on the error field, not on what it decodes to
callsiteCallback_throwingOnAnyError(callsite, results) ==
    LET result == At0(results)
    IN  IF result = Undefined \/ result.op_type # OpType.LogicInvoke
        THEN ThrowCode("Expected LogicInvoke operation.", "UNKNOWN_ERROR")
        ELSE IF result.data.error # ""
        THEN ThrowCode(result.data.error, "CALL_EXCEPTION")
        ELSE decodeOutput(callsite, result.data.outputs)

\* the callback of a callsite that does not mutate, from the simulation on
callsiteCallback(callsite, results) ==
    LET result == At0(results)
        exception == decodeException(result.data.error)
    IN  IF result = Undefined \/ result.op_type # OpType.LogicInvoke
        THEN ThrowCode("Expected LogicInvoke operation.", "UNKNOWN_ERROR")
        ELSE IF IsThrow(exception) THEN exception
        ELSE IF exception # Null
        THEN ThrowCode(exception.error, "CALL_EXCEPTION")
        ELSE decodeOutput(callsite, result.data.outputs)

\* LogicFactory.processResult, from the result of the response on
processResult(result) ==
    LET error == decodeException(result[1].error)
    IN  IF IsThrow(error) THEN error
        ELSE [t |-> "result",
              logic_id |-> IF result[1].logic_id # "" THEN result[1].logic_id ELSE "",
              error |-> error]

(***************************************************************************)
(* One call of a decode path or of one of the callers.                     *)
(***************************************************************************)
LogicIdHexes ==
    { bytesToHex(MakeId(tag, 0, <<0, 0, 0, 0>>)).h : tag \in {TagLogicIdV0, TagParticipantV0} }

\* the operation results a deploy can come back with
DeployResults ==
    {<<>>}
    \cup { <<[type |-> type, payload |-> [error |-> error, logic_id |-> logic_id]]>> :
            type \in {OpType.LogicDeploy, OpType.LogicInvoke}, error \in Payloads,
            logic_id \in LogicIdHexes }

\* the operation results a simulation can come back with
SimulationResults ==
    {<<>>}
    \cup { <<[op_type |-> type, data |-> [error |-> error, outputs |-> outputs]]>> :
            type \in {OpType.LogicDeploy, OpType.LogicInvoke}, error \in Payloads,
            outputs \in Payloads }

FactoryResults ==
    { <<[logic_id |-> logic_id, error |-> error]>> :
            logic_id \in {"", "0xlg1"}, error \in Payloads }

InitDecode ==
    /\ DecodeIdle
    /\ OpIdle /\ IxIdle /\ GatherIdle /\ WaitIdle /\ ReceiptIdle /\ IdIdle /\ LateIdle

CallDecodeOutput(callsite, output) ==
    /\ dPc = "idle"
    /\ dPc' = "done"
    /\ dCall' = "decodeOutput"
    /\ dIn' = [callsite |-> callsite, payload |-> output]
    /\ dOut' = decodeOutput(callsite, output)
    /\ UNCHANGED dLogicId
    /\ UNCHANGED <<opVars, ixVars, gVars, wVars, rVars, idVars, lateVars>>

CallDecodeException(error) ==
    /\ dPc = "idle"
    /\ dPc' = "done"
    /\ dCall' = "decodeException"
    /\ dIn' = [payload |-> error]
    /\ dOut' = decodeException(error)
    /\ UNCHANGED dLogicId
    /\ UNCHANGED <<opVars, ixVars, gVars, wVars, rVars, idVars, lateVars>>

CallDecodeEventOutput(event, logData) ==
    /\ dPc = "idle"
    /\ dPc' = "done"
    /\ dCall' = "decodeEventOutput"
    /\ dIn' = [event |-> event, payload |-> logData]
    /\ dOut' = decodeEventOutput(event, logData)
    /\ UNCHANGED dLogicId
    /\ UNCHANGED <<opVars, ixVars, gVars, wVars, rVars, idVars, lateVars>>

CallDecodeState(data, field, fields) ==
    /\ dPc = "idle"
    /\ dPc' = "done"
    /\ dCall' = "decodeState"
    /\ dIn' = [field |-> field, fields |-> fields, payload |-> data]
    /\ dOut' = decodeState(data, field, fields)
    /\ UNCHANGED dLogicId
    /\ UNCHANGED <<opVars, ixVars, gVars, wVars, rVars, idVars, lateVars>>

CallGetLogicId(results) ==
    /\ dPc = "idle"
    /\ dPc' = "done"
    /\ dCall' = "getLogicId"
    /\ dIn' = [results |-> results]
    /\ dOut' = getLogicId(results).out
    /\ dLogicId' = getLogicId(results).logicId
    /\ UNCHANGED <<opVars, ixVars, gVars, wVars, rVars, idVars, lateVars>>

CallCallsite(callsite, results) ==
    /\ dPc = "idle"
    /\ dPc' = "done"
    /\ dCall' = "callsite"
    /\ dIn' = [callsite |-> callsite, results |-> results]
    /\ dOut' = callsiteCallback(callsite, results)
    /\ UNCHANGED dLogicId
    /\ UNCHANGED <<opVars, ixVars, gVars, wVars, rVars, idVars, lateVars>>

CallProcessResult(result) ==
    /\ dPc = "idle"
    /\ dPc' = "done"
    /\ dCall' = "processResult"
    /\ dIn' = [results |-> result]
    /\ dOut' = processResult(result)
    /\ UNCHANGED dLogicId
    /\ UNCHANGED <<opVars, ixVars, gVars, wVars, rVars, idVars, lateVars>>

NextDecode ==
    \/ \E callsite \in Routines \cup {"Unknown"}, output \in Payloads :
            CallDecodeOutput(callsite, output)
    \/ \E error \in Payloads : CallDecodeException(error)
    \/ \E event \in Events \cup {"Unknown"}, logData \in Payloads :
            CallDecodeEventOutput(event, logData)
    \/ \E data \in Payloads, field \in StateFields, fields \in SUBSET StateFields :
            CallDecodeState(data, field, fields)
    \/ \E results \in DeployResults : CallGetLogicId(results)
    \/ \E callsite \in Routines, results \in SimulationResults :
            CallCallsite(callsite, results)
    \/ \E result \in FactoryResults : CallProcessResult(result)

SpecDecode == InitDecode /\ [][NextDecode]_vars

\* the error field of the result handed to a caller of decodeException
C20_ErrorField ==
    CASE dCall = "getLogicId" -> dIn.results[1].payload.error
      [] dCall = "callsite" -> dIn.results[1].data.error
      [] dCall = "processResult" -> dIn.results[1].error

MaxCalls == 3

LogicState == [Persistent |-> "persistent", Ephemeral |-> "ephemeral"]

PropertyAccessor(label) == [k |-> "property", label |-> label]

ArrayIndexAccessor(index) == [k |-> "index", index |-> index]

LengthAccessor == [k |-> "length"]

\* the accessor functions a caller passes: b => b, b => b.name("Symbol"), ...
AccessorFns ==
    { <<>>,
      <<PropertyAccessor(1)>>,
      <<PropertyAccessor(2)>>,
      <<PropertyAccessor(2), ArrayIndexAccessor(0)>>,
      <<PropertyAccessor(2), ArrayIndexAccessor(1)>>,
      <<PropertyAccessor(2), LengthAccessor>> }

\* the state elements of the manifests: the root pointer of each state
Elements ==
    { [persistent |-> [t |-> "element", ptr |-> 0], ephemeral |-> Null],
      [persistent |-> Null, ephemeral |-> [t |-> "element", ptr |-> 1]],
      [persistent |-> [t |-> "element", ptr |-> 0], ephemeral |-> [t |-> "element", ptr |-> 1]] }

getStateElement(driver, state) ==
    IF driver.elements[state] = Null
    THEN Throw("State not found in logic.")
    ELSE driver.elements[state]

StateAccessorBuilder(ptr, driver) ==
    [class |-> "StateAccessorBuilder", slot |-> ptr, accessors |-> <<>>]

\* the builder an accessor function returns: a slot accessor builder as soon
\* as one accessor has been recorded
accessor(fn, builder) ==
    IF fn = <<>>
    THEN builder
    ELSE [class |-> "SlotAccessorBuilder", slot |-> builder.slot,
          accessors |-> builder.accessors \o fn]

mix(key, a) ==
    CASE a.k = "property" -> (key * 31 + a.label + 1) % 65536
      [] a.k = "index" -> (key * 31 + a.index + 101) % 65536
      [] a.k = "length" -> (key * 31 + 201) % 65536

RECURSIVE generateStorageKey(_, _)
generateStorageKey(baseSlot, accessors) ==
    IF accessors = <<>>
    THEN baseSlot
    ELSE generateStorageKey(mix(baseSlot, Head(accessors)), Tail(accessors))

\* a driver whose key derivation starts from a slot that moves once a
\* deploy response is kept
getStorageKey_slotMovedByDeploy(driver, state, fn) ==
    LET element == getStateElement(driver, state)
        moved == IF driver.deployIxResponse = Null THEN 0 ELSE 1
    IN  IF IsThrow(element) THEN element
        ELSE LET builder == accessor(fn, StateAccessorBuilder(element.ptr + moved, driver))
             IN  IF builder.class # "SlotAccessorBuilder"
                 THEN Throw("Invalid accessor builder.")
                 ELSE [t |-> "key", value |-> generateStorageKey(builder.slot, builder.accessors)]

getStorageKey(driver, state, fn) ==
    LET element == getStateElement(driver, state)
    IN  IF IsThrow(element) THEN element
        ELSE LET builder == accessor(fn, StateAccessorBuilder(element.ptr, driver))
             IN  IF builder.class # "SlotAccessorBuilder"
                 THEN Throw("Invalid accessor builder.")
                 ELSE [t |-> "key", value |-> generateStorageKey(builder.slot, builder.accessors)]

InitStorage ==
    /\ \E elements \in Elements :
          skDriver = [elements |-> elements, deployIxResponse |-> Null]
    /\ skCalls = <<>>
    /\ EarlyIdle /\ SignerIdle /\ DriverIdle /\ EventsIdle

CallGetStorageKey(state, fn) ==
    /\ Len(skCalls) < MaxCalls
    /\ skCalls' = Append(skCalls, [call |-> "getStorageKey", state |-> state, fn |-> fn,
                                   out |-> getStorageKey(skDriver, state, fn)])
    /\ UNCHANGED <<skDriver, earlyVars, sgVars, ldVars, evVars>>

\* a deployer callsite has kept the response of its interaction
KeepDeployResponse ==
    /\ Len(skCalls) < MaxCalls
    /\ skDriver.deployIxResponse = Null
    /\ skDriver' = [skDriver EXCEPT !.deployIxResponse = [t |-> "response"]]
    /\ skCalls' = Append(skCalls, [call |-> "deploy"])
    /\ UNCHANGED <<earlyVars, sgVars, ldVars, evVars>>

NextStorage ==
    \/ \E state \in {LogicState.Persistent, LogicState.Ephemeral}, fn \in AccessorFns :
          CallGetStorageKey(state, fn)
    \/ KeepDeployResponse

SpecStorage == InitStorage /\ [][NextStorage]_vars

KeyCalls == {i \in DOMAIN skCalls : skCalls[i].call = "getStorageKey"}

MaxSequence == 2

DEFAULT_FUEL_PRICE == 1

\* {...obj, ...fields}
Spread(obj, fields) ==
    Obj([k \in DOMAIN obj.o \cup DOMAIN fields |->
            IF k \in DOMAIN fields THEN fields[k] ELSE obj.o[k]])

SignatureOfSigner ==
    Obj([identifier |-> GoodAddress, key_idx |-> Num(0), signature |-> Str("0x12")])

SignaturesValues == {Absent, Str("none"), Arr(<<>>), Arr(<<SignatureOfSigner>>)}

\* what is handed to a submission entry point
SignedArgs ==
    {Strip([interaction |-> i, signatures |-> s]) :
        i \in {Str("0x12"), Str(NotHex)}, s \in SignaturesValues \ {Absent}}

SubmitArgs ==
    {Strip([interaction |-> i, signatures |-> s]) :
        i \in {Absent, Str("0x12"), Str(NotHex)}, s \in SignaturesValues}

SenderArgs ==
    {Absent, Obj([key_id |-> Num(0)])}
        \cup {Obj([sequence_id |-> Num(n)]) : n \in 0..MaxSequence}

\* what is handed to Signer.execute to be signed: a request, a list of
\* operations, one operation
UnsignedArgs ==
    {Strip([sender |-> s, fuel_limit |-> f, operations |-> ops]) :
        s \in SenderArgs, f \in {Absent, Num(0), Num(1)},
        ops \in {Arr(<<ValidOperation>>), Arr(<<InvalidOperation>>), Arr(<<>>)}}
        \cup {Arr(<<ValidOperation>>), ValidOperation}

\* the validateIxRequest of two arguments the signer calls
validateIxRequestFor(type, ix) == validateIxRequest(ix)

isSignedInteraction(ix) ==
    /\ ix.t = "object"
    /\ In("interaction", ix) /\ Get(ix, "interaction").t = "string"
    /\ In("signatures", ix) /\ IsArray(Get(ix, "signatures"))

RpcCall(method, params) == [e |-> "rpc", method |-> method, params |-> params]

Submitting(ix) == [e |-> "provider.execute", ix |-> ix]

\* what a call has done, and what it has thrown if it has
Did(log, out) == [log |-> log, out |-> out]

\* Provider.submit up to its RPC call: what it throws, or the call it makes
Provider_submit(signed) ==
    IF ~isSignedInteraction(signed)
    THEN Did(<<>>, ThrowCode("Invalid argument for method signature", "INVALID_ARGUMENT"))
    ELSE IF ~isHex(Get(signed, "interaction"))
    THEN Did(<<>>, ThrowCode("Must be a valid hex string", "INVALID_ARGUMENT"))
    ELSE IF Len(Get(signed, "signatures").items) = 0
    THEN Did(<<>>, ThrowCode("Interaction must be have at least one signature",
                             "INVALID_SIGNATURE"))
    ELSE Did(<<RpcCall("moi.Submit",
                       Obj([interaction |-> Get(signed, "interaction"),
                            signatures |-> Get(signed, "signatures")]))>>, Null)

\* JsonRpcProvider.execute of an object, up to its RPC call
JsonRpcProvider_execute(ix) ==
    IF IsNil(Get(ix, "interaction"))
    THEN Did(<<>>, ThrowCode("No interaction provided", "INVALID_ARGUMENT"))
    ELSE IF ~Truthy(Get(ix, "signatures")) \/ ~IsArray(Get(ix, "signatures"))
    THEN Did(<<>>, ThrowCode("No signatures provided", "INVALID_ARGUMENT"))
    ELSE Did(<<RpcCall("moi.Execute", ix)>>, Null)

\* this.getProvider().execute(ix) as the signer calls it
provider_execute(ix) ==
    LET r == JsonRpcProvider_execute(ix)
    IN  Did(<<Submitting(ix)>> \o r.log, r.out)

\* the pre-signed branch of Signer.execute
execute_signed(arg) ==
    IF ~isHex(Get(arg, "interaction"))
    THEN Did(<<>>, ThrowCode("Invalid interaction provided. Not a valid hex.",
                             "INVALID_ARGUMENT"))
    ELSE IF ~IsArray(Get(arg, "signatures"))
    THEN Did(<<>>, ThrowCode("Invalid signatures provided. Not an array.",
                             "INVALID_ARGUMENT"))
    ELSE provider_execute(arg)

createIxRequestSender(sender, latest) ==
    IF IsNil(sender)
    THEN Obj([address |-> GoodAddress, key_id |-> Num(0), sequence_id |-> Num(latest)])
    ELSE Obj([address |-> GoodAddress,
              key_id |-> IF IsNil(Get(sender, "key_id")) THEN Num(0)
                         ELSE Get(sender, "key_id"),
              sequence_id |-> IF IsNil(Get(sender, "sequence_id")) THEN Num(latest)
                              ELSE Get(sender, "sequence_id")])

createSimulateIxRequest(arg, latest) ==
    IF IsArray(arg)
    THEN Obj([sender |-> createIxRequestSender(Undefined, latest),
              fuel_price |-> Num(DEFAULT_FUEL_PRICE), operations |-> arg])
    ELSE IF In("type", arg) /\ In("payload", arg)
    THEN Obj([sender |-> createIxRequestSender(Undefined, latest),
              fuel_price |-> Num(DEFAULT_FUEL_PRICE), operations |-> Arr(<<arg>>)])
    ELSE Spread(arg, [sender |-> createIxRequestSender(Get(arg, "sender"), latest),
                      fuel_price |-> IF IsNil(Get(arg, "fuel_price"))
                                     THEN Num(DEFAULT_FUEL_PRICE)
                                     ELSE Get(arg, "fuel_price")])

\* typeof args === "object" && "fuel_limit" in args && typeof args.fuel_limit === "number"
hasFuelLimit(args) ==
    args.t = "object" /\ In("fuel_limit", args) /\ Get(args, "fuel_limit").t = "number"

Validated(request, result) == [e |-> "validateIxRequest", request |-> request, result |-> result]

Signing(request) == [e |-> "signInteraction", request |-> request]

\* createIxRequest once the simulation has answered: the request it returns
\* or what it throws, and the validation it has run
createIxRequest_simulated(simulateIxRequest, simulation) ==
    LET executeIxRequest == Spread(simulateIxRequest, [fuel_limit |-> simulation.effort])
        err == validateIxRequestFor("moi.Execute", executeIxRequest)
    IN  [log |-> <<Validated(executeIxRequest, err)>>,
         request |-> executeIxRequest,
         out |-> IF IsThrow(err) THEN err
                 ELSE IF err # Null
                 THEN ThrowCode("Invalid interaction request", "INVALID_ARGUMENT")
                 ELSE Null]

\* Signer.execute that signs without the sequence check
execute_checked_withoutSequenceCheck(request, latest) ==
    LET error == validateIxRequestFor("moi.Execute", request)
    IN  IF IsThrow(error)
        THEN Did(<<>>, error)
        ELSE IF error # Null
        THEN [log |-> <<Validated(request, error)>>,
              out |-> ThrowCode("Invalid interaction request", "INVALID_ARGUMENT")]
        ELSE [log |-> <<Validated(request, error), Signing(request)>>, out |-> Null]

\* Signer.execute that signs whatever the validation says
execute_checked_signingAnyway(request, latest) ==
    IF JsLt(Get(Get(request, "sender"), "sequence_id"), latest)
    THEN Did(<<>>, ThrowCode("Sequence number is outdated", "SEQUENCE_EXPIRED"))
    ELSE LET error == validateIxRequestFor("moi.Execute", request)
         IN  [log |-> <<Validated(request, error), Signing(request)>>, out |-> Null]

\* Signer.execute from the answer of getLatestSequence to the call of
\* signInteraction
execute_checked(request, latest) ==
    IF JsLt(Get(Get(request, "sender"), "sequence_id"), latest)
    THEN Did(<<>>, ThrowCode("Sequence number is outdated", "SEQUENCE_EXPIRED"))
    ELSE LET error == validateIxRequestFor("moi.Execute", request)
         IN  IF IsThrow(error)
             THEN Did(<<>>, error)
             ELSE IF error # Null
             THEN [log |-> <<Validated(request, error)>>,
                   out |-> ThrowCode("Invalid interaction request", "INVALID_ARGUMENT")]
             ELSE [log |-> <<Validated(request, error), Signing(request)>>, out |-> Null]

\* Wallet.signInteraction
signInteraction(ix) ==
    Obj([interaction |-> Str("0x12"), signatures |-> Arr(<<SignatureOfSigner>>)])

InitSigner ==
    /\ sgCall = "none" /\ sgArg = Null /\ sgPc = "idle" /\ sgRequest = Null
    /\ sgSequence \in 0..1
    /\ sgSequence0 = sgSequence
    /\ sgLatest = Null /\ sgLog = <<>> /\ sgOut = Null
    /\ EarlyIdle /\ StorageIdle /\ DriverIdle /\ EventsIdle

Provider_submit_call(signed) ==
    /\ sgPc = "idle"
    /\ sgCall' = "Provider.submit"
    /\ sgArg' = signed
    /\ LET r == Provider_submit(signed)
       IN  /\ sgLog' = sgLog \o r.log
           /\ sgOut' = r.out
           /\ sgPc' = IF r.out = Null THEN "rpc" ELSE "done"
    /\ UNCHANGED <<sgRequest, sgSequence, sgSequence0, sgLatest, earlyVars, skVars, ldVars, evVars>>

JsonRpcProvider_execute_call(ix) ==
    /\ sgPc = "idle"
    /\ sgCall' = "JsonRpcProvider.execute"
    /\ sgArg' = ix
    /\ LET r == JsonRpcProvider_execute(ix)
       IN  /\ sgLog' = sgLog \o r.log
           /\ sgOut' = r.out
           /\ sgPc' = IF r.out = Null THEN "rpc" ELSE "done"
    /\ UNCHANGED <<sgRequest, sgSequence, sgSequence0, sgLatest, earlyVars, skVars, ldVars, evVars>>

\* Signer.execute of a signed request
execute_call_signed(arg) ==
    /\ sgPc = "idle"
    /\ sgCall' = "Signer.execute"
    /\ sgArg' = arg
    /\ LET r == execute_signed(arg)
       IN  /\ sgLog' = sgLog \o r.log
           /\ sgOut' = r.out
           /\ sgPc' = IF r.out = Null THEN "rpc" ELSE "done"
    /\ UNCHANGED <<sgRequest, sgSequence, sgSequence0, sgLatest, earlyVars, skVars, ldVars, evVars>>

\* Signer.execute of a request to be signed, up to the first await
execute_call(arg) ==
    /\ sgPc = "idle"
    /\ sgCall' = "Signer.execute"
    /\ sgArg' = arg
    /\ sgPc' = "sender"
    /\ UNCHANGED <<sgRequest, sgSequence, sgSequence0, sgLatest, sgLog, sgOut,
                   earlyVars, skVars, ldVars, evVars>>

\* createIxRequest: the sender is filled in, and the simulation is asked
\* for unless the caller gave a fuel limit
createIxRequest_sender ==
    /\ sgPc = "sender"
    /\ LET simulateIxRequest == createSimulateIxRequest(sgArg, sgSequence)
       IN  IF hasFuelLimit(sgArg)
           THEN /\ sgRequest' = Spread(simulateIxRequest,
                                       [fuel_limit |-> Get(sgArg, "fuel_limit")])
                /\ sgPc' = "sequence"
           ELSE /\ sgRequest' = simulateIxRequest
                /\ sgPc' = "simulate"
    /\ UNCHANGED <<sgCall, sgArg, sgSequence, sgSequence0, sgLatest, sgLog, sgOut,
                   earlyVars, skVars, ldVars, evVars>>

\* the provider answers the simulation: it fails, or reports an effort
createIxRequest_simulation(simulation) ==
    /\ sgPc = "simulate"
    /\ IF IsThrow(simulation)
       THEN /\ sgOut' = simulation
            /\ sgPc' = "done"
            /\ UNCHANGED <<sgRequest, sgLog>>
       ELSE LET r == createIxRequest_simulated(sgRequest, simulation)
            IN  /\ sgRequest' = r.request
                /\ sgLog' = sgLog \o r.log
                /\ sgOut' = r.out
                /\ sgPc' = IF r.out = Null THEN "sequence" ELSE "done"
    /\ UNCHANGED <<sgCall, sgArg, sgSequence, sgSequence0, sgLatest, earlyVars, skVars, ldVars, evVars>>

\* the provider answers getLatestSequence
execute_sequence ==
    /\ sgPc = "sequence"
    /\ sgLatest' = Num(sgSequence)
    /\ LET r == execute_checked(sgRequest, sgSequence)
       IN  /\ sgLog' = sgLog \o r.log
           /\ sgOut' = r.out
           /\ sgPc' = IF r.out = Null THEN "sign" ELSE "done"
    /\ UNCHANGED <<sgCall, sgArg, sgRequest, sgSequence, sgSequence0, earlyVars, skVars, ldVars, evVars>>

\* the signature is there and the signed request goes to the provider
execute_signed_submit ==
    /\ sgPc = "sign"
    /\ LET r == provider_execute(signInteraction(sgRequest))
       IN  /\ sgLog' = sgLog \o r.log
           /\ sgOut' = r.out
           /\ sgPc' = IF r.out = Null THEN "rpc" ELSE "done"
    /\ UNCHANGED <<sgCall, sgArg, sgRequest, sgSequence, sgSequence0, sgLatest,
                   earlyVars, skVars, ldVars, evVars>>

\* the network answers the RPC call
rpc_answer(answer) ==
    /\ sgPc = "rpc"
    /\ sgOut' = answer
    /\ sgPc' = "done"
    /\ UNCHANGED <<sgCall, sgArg, sgRequest, sgSequence, sgSequence0, sgLatest, sgLog,
                   earlyVars, skVars, ldVars, evVars>>

\* another interaction of the same key is accepted by the network
SequenceAdvances ==
    /\ sgPc \notin {"idle", "done"}
    /\ sgSequence < MaxSequence
    /\ sgSequence' = sgSequence + 1
    /\ UNCHANGED <<sgCall, sgArg, sgPc, sgRequest, sgSequence0, sgLatest, sgLog, sgOut,
                   earlyVars, skVars, ldVars, evVars>>

NextSigner ==
    \/ \E signed \in SubmitArgs : Provider_submit_call(signed)
    \/ \E ix \in SubmitArgs : JsonRpcProvider_execute_call(ix)
    \/ \E arg \in SignedArgs : execute_call_signed(arg)
    \/ \E arg \in UnsignedArgs : execute_call(arg)
    \/ createIxRequest_sender
    \/ \E simulation \in {Throw("simulation failed"), [t |-> "simulation", effort |-> Num(0)],
                          [t |-> "simulation", effort |-> Num(1)]} :
          createIxRequest_simulation(simulation)
    \/ execute_sequence
    \/ execute_signed_submit
    \/ \E answer \in {Str("0x12"), Throw("rpc failed")} : rpc_answer(answer)
    \/ SequenceAdvances

SpecSigner == InitSigner /\ [][NextSigner]_vars

Unsigned == sgCall = "Signer.execute" /\ sgArg \in UnsignedArgs

Logged(e) == {i \in DOMAIN sgLog : sgLog[i].e = e}

\* C22: in Signer.execute of an unsigned request, signInteraction and
\* provider.execute are called only after validateIxRequest has returned
\* null for the request that is sent; once a validation has reported an
\* error nothing is signed or submitted and the call fails.
C22_ValidatedBeforeSigning ==
    Unsigned =>
        /\ \A i \in Logged("signInteraction") :
              /\ sgLog[i].request = sgRequest
              /\ \E j \in Logged("validateIxRequest") :
                    j < i /\ sgLog[j].request = sgRequest /\ sgLog[j].result = Null
        /\ \A i \in Logged("provider.execute") :
              /\ sgLog[i].ix = signInteraction(sgRequest)
              /\ \E j \in Logged("signInteraction") : j < i
        /\ (\E j \in Logged("validateIxRequest") : sgLog[j].result # Null) =>
              /\ Logged("signInteraction") = {}
              /\ Logged("provider.execute") = {}
              /\ Logged("rpc") = {}
              /\ sgPc = "done" /\ IsThrow(sgOut)

\* an unsigned request has been validated, signed and submitted
C22_Witness ==
    /\ Unsigned /\ sgPc = "done"
    /\ Logged("validateIxRequest") # {}
    /\ Logged("signInteraction") # {}
    /\ Logged("rpc") # {}
    /\ sgOut = Str("0x12")

\* the sequence_id of the request Signer.execute has built
SequenceId == Get(Get(sgRequest, "sender"), "sequence_id")

\* the request is behind what the provider reported when execute was called
\* (and behind every later report: the sequence only grows)
Outdated == Unsigned /\ sgRequest # Null /\ JsLt(SequenceId, sgSequence0)

SequenceExpired ==
    IsThrow(sgOut) /\ "code" \in DOMAIN sgOut /\ sgOut.code = "SEQUENCE_EXPIRED"

\* C26 as stated: an execute whose request has a sequence_id lower than the
\* provider's latest sequence fails with SEQUENCE_EXPIRED and does not call
\* provider.execute.
C26_OutdatedFailsExpired ==
    (Outdated /\ sgPc = "done") =>
        SequenceExpired /\ Logged("provider.execute") = {}

\* C26, amended: a request is handed to provider.execute only if its
\* sequence_id is not lower than the sequence the provider reported last; an
\* execute of an outdated request fails without calling provider.execute,
\* with SEQUENCE_EXPIRED once the request has been created.
C26_OutdatedNeverSubmitted ==
    Unsigned =>
        /\ \A i \in Logged("provider.execute") :
              sgLatest # Null /\ ~JsLt(SequenceId, sgLatest.n)
        /\ (Outdated /\ sgPc = "done") =>
              /\ IsThrow(sgOut)
              /\ Logged("provider.execute") = {} /\ Logged("rpc") = {}
              /\ sgLatest # Null => SequenceExpired

\* an outdated request has come to the sequence check and has been refused
C26_Witness ==
    /\ Outdated /\ sgPc = "done"
    /\ sgLatest # Null
    /\ SequenceExpired

\* C27: no RPC call that submits an interaction is made with an empty list
\* of signatures, whichever the entry point.
C27_NoRpcWithoutSignature ==
    \A i \in Logged("rpc") :
        LET signatures == Get(sgLog[i].params, "signatures")
        IN  IsArray(signatures) /\ Len(signatures.items) > 0

(***************************************************************************)
(* The LogicDriver over time.  The driver holds a logic id and the        *)
(* response of its deploy interaction; callsites, getLogicId and          *)
(* isDeployed are called on it, and each call runs in steps, one for each *)
(* await of the code, so that calls interleave as promises do.  The       *)
(* network finalizes the deploy interaction at some moment.  LogicId and  *)
(* the base class LogicDescriptor (getLogicId, setLogicId) are described  *)
(* by the specification and the tests.                                    *)
(***************************************************************************)
MaxInvocations == 2

RoutineType == [Deploy |-> "deploy", Invoke |-> "invoke", Enlist |-> "enlist"]

\* what is called on the driver: a callsite of some type, mutable or not,
\* getLogicId, isDeployed
DriverCalls ==
    { [kind |-> "callsite", type |-> RoutineType.Deploy, mutable |-> TRUE],
      [kind |-> "callsite", type |-> RoutineType.Invoke, mutable |-> TRUE],
      [kind |-> "callsite", type |-> RoutineType.Invoke, mutable |-> FALSE],
      [kind |-> "callsite", type |-> RoutineType.Enlist, mutable |-> TRUE],
      [kind |-> "getLogicId"],
      [kind |-> "isDeployed"] }

\* LogicDescriptor.getLogicId
super_getLogicId(logicId) ==
    IF logicId = Null
    THEN Throw("Logic id not found. This can happen if the logic is not deployed.")
    ELSE logicId

\* LogicDriver.getLogicId from the answer of deployIxResponse.result on
getLogicId_result(answer) ==
    IF IsThrow(answer) THEN [out |-> answer, logicId |-> Null] ELSE getLogicId(answer.items)

\* isDeployed, from what getLogicId has resolved to or rejected with
isDeployed(logicId) == ~IsThrow(logicId) /\ ~IsNil(logicId)

\* the callback without the test of the callsites that do not deploy
callsiteGuard_deployerOnly(isDeployerCallsite, deployed) ==
    IF isDeployerCallsite /\ deployed
    THEN Throw("Logic is already deployed or deploying.")
    ELSE Null

\* the two tests at the head of the callback of a callsite
callsiteGuard(isDeployerCallsite, deployed) ==
    IF isDeployerCallsite /\ deployed
    THEN Throw("Logic is already deployed or deploying.")
    ELSE IF ~isDeployerCallsite /\ ~deployed
    THEN Throw("Logic is not deployed, deploy it first using deployer callsites.")
    ELSE Null

\* the operation type createIxOperation gives a callsite
callsiteOpType(type) ==
    CASE type = RoutineType.Deploy -> OpType.LogicDeploy
      [] type = RoutineType.Invoke -> OpType.LogicInvoke
      [] type = RoutineType.Enlist -> OpType.LogicEnlist

SignerCall(method, p, call) ==
    [method |-> method, by |-> p, type |-> callsiteOpType(call.type)]

\* a call from the moment getLogicId has settled to its next await: where
\* it stands, what it has returned or thrown, what it has asked of the signer
afterGetLogicId(p, call, logicId) ==
    CASE call.kind = "getLogicId" -> [pc |-> "done", out |-> logicId, signer |-> <<>>]
      [] call.kind = "isDeployed" ->
            [pc |-> "done", out |-> Bool(isDeployed(logicId)), signer |-> <<>>]
      [] call.kind = "callsite" ->
            LET thrown == callsiteGuard(call.type = RoutineType.Deploy, isDeployed(logicId))
            IN  IF thrown # Null
                THEN [pc |-> "done", out |-> thrown, signer |-> <<>>]
                ELSE [pc |-> "simulate", out |-> Null,
                      signer |-> <<SignerCall("simulate", p, call)>>]

\* the results of a simulated invoke
InvokeResults ==
    { <<>>,
      <<[op_type |-> OpType.LogicInvoke, data |-> [error |-> "0x", outputs |-> "0x0a"]]>>,
      <<[op_type |-> OpType.LogicInvoke, data |-> [error |-> "0xe1", outputs |-> "0x"]]>> }

Simulations ==
    {Throw("simulation failed")}
        \cup {[t |-> "simulation", effort |-> 1, result |-> r] : r \in InvokeResults}

\* the logic ids a driver can be constructed with: those LogicId lets one make
DriverLogicIds ==
    {id \in {LogicId_new(Bytes(MakeId(tag, 0, <<0, 0, 0, 0>>))) :
                tag \in {TagLogicIdV0, TagParticipantV0}} : ~IsThrow(id)}

\* what the deploy interaction is finalized with
FinalResults ==
    { results \in DeployResults :
        results # <<>> => results[1].payload.error \in {"0x", "0xe1"} }

Proc0 == [pc |-> "idle", call |-> Null, out |-> Null, at |-> Null, result |-> Null]

InitDriver ==
    /\ \E logicId \in {Null} \cup DriverLogicIds :
          ldDriver = [logicId |-> logicId, deployIxResponse |-> Null]
    /\ ldNetwork = [status |-> "none", results |-> <<>>]
    /\ ldProc = [p \in 1..MaxInvocations |-> Proc0]
    /\ ldSigner = <<>>
    /\ EarlyIdle /\ StorageIdle /\ SignerIdle /\ EventsIdle

\* a call is made on the driver: it runs up to its first await.  getLogicId
\* asks the deploy response for its result if there is one, and answers from
\* the logic id the driver holds if there is none
Invoke(p, call) ==
    /\ ldProc[p].pc = "idle"
    /\ \A q \in 1..(p - 1) : ldProc[q].pc # "idle"
    /\ IF ldDriver.deployIxResponse # Null
       THEN /\ ldProc' = [ldProc EXCEPT ![p] = [pc |-> "result", call |-> call,
                                                out |-> Null, at |-> ldDriver,
                                                result |-> Null]]
            /\ UNCHANGED ldSigner
       ELSE LET r == afterGetLogicId(p, call, super_getLogicId(ldDriver.logicId))
            IN  /\ ldProc' = [ldProc EXCEPT ![p] = [pc |-> r.pc, call |-> call,
                                                    out |-> r.out, at |-> ldDriver,
                                                    result |-> Null]]
                /\ ldSigner' = ldSigner \o r.signer
    /\ UNCHANGED <<ldDriver, ldNetwork, earlyVars, skVars, sgVars, evVars>>

\* deployIxResponse.result answers: the results of the finalized interaction,
\* or an error when the wait gave up on a pending one
ResultAnswers(p) ==
    /\ ldProc[p].pc = "result"
    /\ LET answer == IF ldNetwork.status = "finalized" THEN Arr(ldNetwork.results)
                     ELSE Throw("Failed to get interaction confirmation")
           g == getLogicId_result(answer)
           r == afterGetLogicId(p, ldProc[p].call, g.out)
       IN  /\ ldDriver' = IF g.logicId # Null
                          THEN [ldDriver EXCEPT !.logicId = g.logicId]
                          ELSE ldDriver
           /\ ldProc' = [ldProc EXCEPT ![p].pc = r.pc, ![p].out = r.out,
                                       ![p].result = answer]
           /\ ldSigner' = ldSigner \o r.signer
    /\ UNCHANGED <<ldNetwork, earlyVars, skVars, sgVars, evVars>>

\* signer.simulate answers: a callsite that does not mutate returns the
\* decoded output, a mutable one goes on to signer.execute
SimulateAnswers(p, simulation) ==
    /\ ldProc[p].pc = "simulate"
    /\ IF IsThrow(simulation)
       THEN /\ ldProc' = [ldProc EXCEPT ![p].pc = "done", ![p].out = simulation]
            /\ UNCHANGED ldSigner
       ELSE IF ~ldProc[p].call.mutable
       THEN /\ ldProc' = [ldProc EXCEPT ![p].pc = "done",
                                        ![p].out = callsiteCallback("BalanceOf",
                                                                    simulation.result)]
            /\ UNCHANGED ldSigner
       ELSE /\ ldProc' = [ldProc EXCEPT ![p].pc = "execute"]
            /\ ldSigner' = Append(ldSigner, SignerCall("execute", p, ldProc[p].call))
    /\ UNCHANGED <<ldDriver, ldNetwork, earlyVars, skVars, sgVars, evVars>>

\* signer.execute answers: the response of a deployer callsite is kept
ExecuteAnswers(p, response) ==
    /\ ldProc[p].pc = "execute"
    /\ ldProc' = [ldProc EXCEPT ![p].pc = "done", ![p].out = response]
    /\ IF ~IsThrow(response) /\ ldProc[p].call.type = RoutineType.Deploy
       THEN /\ ldDriver' = [ldDriver EXCEPT !.deployIxResponse = response]
            /\ ldNetwork' = [status |-> "pending", results |-> <<>>]
       ELSE UNCHANGED <<ldDriver, ldNetwork>>
    /\ UNCHANGED <<ldSigner, earlyVars, skVars, sgVars, evVars>>

\* the network finalizes the deploy interaction
DeployFinalizes(results) ==
    /\ ldNetwork.status = "pending"
    /\ ldNetwork' = [status |-> "finalized", results |-> results]
    /\ UNCHANGED <<ldDriver, ldProc, ldSigner, earlyVars, skVars, sgVars, evVars>>

NextDriver ==
    \/ \E p \in 1..MaxInvocations, call \in DriverCalls : Invoke(p, call)
    \/ \E p \in 1..MaxInvocations : ResultAnswers(p)
    \/ \E p \in 1..MaxInvocations, simulation \in Simulations : SimulateAnswers(p, simulation)
    \/ \E p \in 1..MaxInvocations,
          response \in {[t |-> "response", hash |-> "0x12"], Throw("execution failed")} :
            ExecuteAnswers(p, response)
    \/ \E results \in FinalResults : DeployFinalizes(results)

SpecDriver == InitDriver /\ [][NextDriver]_vars

Called(p, kind) == ldProc[p].pc # "idle" /\ ldProc[p].call.kind = kind

NonDeployer(p) == Called(p, "callsite") /\ ldProc[p].call.type # RoutineType.Deploy

SignerCallsBy(p) == {i \in DOMAIN ldSigner : ldSigner[i].by = p}

NotDeployedError ==
    Throw("Logic is not deployed, deploy it first using deployer callsites.")

\* C23: a callsite that does not deploy, invoked on a driver that has no
\* logic id and no deploy response, or settling while the driver still has
\* no logic id, rejects with 'Logic is not deployed' and has asked the
\* signer for no simulation and no execution.
C23_NotDeployedRejected ==
    \A p \in 1..MaxInvocations :
        /\ (NonDeployer(p) /\ ldProc[p].at.logicId = Null
                /\ ldProc[p].at.deployIxResponse = Null) =>
              ldProc[p].pc = "done"
        /\ (NonDeployer(p) /\ ldDriver.logicId = Null) =>
              /\ SignerCallsBy(p) = {}
              /\ ldProc[p].pc = "done" => ldProc[p].out = NotDeployedError

\* an invoke made while the deploy was pending has been rejected
C23_Witness ==
    \E p \in 1..MaxInvocations :
        /\ NonDeployer(p) /\ ldProc[p].pc = "done"
        /\ ldProc[p].at.deployIxResponse # Null
        /\ ldProc[p].out = NotDeployedError
        /\ SignerCallsBy(p) = {}

\* the deploy response answered with a LogicDeploy result without exception
DeployConfirmed(p) ==
    /\ ldProc[p].result # Null /\ ~IsThrow(ldProc[p].result)
    /\ ldProc[p].result.items # <<>>
    /\ ldProc[p].result.items[1].type = OpType.LogicDeploy
    /\ decodeException(ldProc[p].result.items[1].payload.error) = Null

DeployExecutions ==
    {i \in DOMAIN ldSigner :
        ldSigner[i].method = "execute" /\ ldSigner[i].type = OpType.LogicDeploy}

\* C25: at most one LogicDeploy interaction is executed through one driver.
C25_AtMostOneDeploy == Cardinality(DeployExecutions) <= 1

\* C28 (SpecWait): when wait has returned or thrown, the caller's timer
\* object has the retries and the delay it had at the call.
C28_TimerUnchanged == wPc = "done" => wTimer = wTimer0

(***************************************************************************)
(* Validation against encoding                                             *)
(***************************************************************************)
\* the request interaction() was called with is one validateIxRequest accepts
Accepted == gPc # "input" /\ validateIxRequest(gIx) = Null

\* C29: every request accepted by validation can be encoded: when
\* validateIxRequest returns null for a request, interaction(request) does
\* not throw
C29_AcceptedIsEncodable == Accepted => gPc # "threw"

\* an accepted request whose participants and funds were gathered
C29_SomeAcceptedGathered == Accepted /\ gPc = "gathered"

(***************************************************************************)
(* base-provider.ts: the listeners of a BaseProvider.  A registration is   *)
(* an Event object; the model numbers the Event objects in the order of    *)
(* their construction.  emit hands every call of a listener to             *)
(* setTimeout(..., 0): the timers fire one at a time, in the order they    *)
(* were set.                                                               *)
(***************************************************************************)
MaxListeners == 2

MaxEmits == 2

ListenerFns == {"f", "g"}

InvalidEventName == "a:b"

EventNames == {"block", "Block", "error", InvalidEventName}

\* eventName.toLowerCase()
toLowerCase(name) == IF name = "Block" THEN "block" ELSE name

\* no event name of the model is the hex of 32 bytes
getEventTag(eventName) ==
    IF eventName = InvalidEventName
    THEN Throw("invalid event - " \o eventName)
    ELSE Str(toLowerCase(eventName))

\* new Event(tag, listener, once), the id-th Event constructed
Event(id, tag, listener, once) ==
    [id |-> id, tag |-> tag, listener |-> listener, once |-> once]

\* what a method leaves behind: this._events, the timers, the Events that
\* off or removeAllListeners dropped, and what it returned or threw
Left(events, timers, removed, out) ==
    [events |-> events, timers |-> timers, removed |-> removed, out |-> out]

This == [t |-> "this"]

_addEventListener(eventName, listener, once) ==
    LET tag == getEventTag(eventName)
    IN  IF IsThrow(tag)
        THEN Left(evEvents, evTimers, evRemoved, tag)
        ELSE Left(Append(evEvents, Event(evCalls.on + 1, tag.s, listener, once)),
                  evTimers, evRemoved, This)

\* _events after emit's filter: the once registrations of the tag are gone
emit_kept(eventTag) ==
    LET keep(event) == event.tag # eventTag \/ ~event.once
    IN  SelectSeq(evEvents, keep)

\* the calls emit hands to setTimeout, in the order of _events
emit_deferred(eventTag) ==
    LET hit(event) == event.tag = eventTag
    IN  SelectSeq(evEvents, hit)

emit(eventName) ==
    LET eventTag == getEventTag(eventName)
    IN  IF IsThrow(eventTag)
        THEN Left(evEvents, evTimers, evRemoved, eventTag)
        ELSE Left(emit_kept(eventTag.s), evTimers \o emit_deferred(eventTag.s),
                  evRemoved, Bool(emit_deferred(eventTag.s) # <<>>))

removeAllListeners(eventName) ==
    LET eventTag == getEventTag(eventName.s)
        keep(event) == event.tag # eventTag.s
        stopped(event) == event.tag = eventTag.s
    IN  IF IsNil(eventName)
        THEN Left(<<>>, evTimers,
                  evRemoved \cup {evEvents[i].id : i \in DOMAIN evEvents}, This)
        ELSE IF IsThrow(eventTag)
        THEN Left(evEvents, evTimers, evRemoved, eventTag)
        ELSE Left(SelectSeq(evEvents, keep), evTimers,
                  evRemoved \cup {evEvents[i].id :
                                    i \in {j \in DOMAIN evEvents : stopped(evEvents[j])}},
                  This)

\* the position of the first Event of the tag with the listener, or 0
off_found(eventTag, listener) ==
    LET hits == {i \in DOMAIN evEvents :
                   evEvents[i].tag = eventTag /\ evEvents[i].listener = listener}
    IN  IF hits = {} THEN 0 ELSE CHOOSE i \in hits : \A j \in hits : i <= j

off(eventName, listener) ==
    LET eventTag == getEventTag(eventName)
        found == off_found(eventTag.s, listener.s)
    IN  IF IsNil(listener)
        THEN removeAllListeners(Str(eventName))
        ELSE IF IsThrow(eventTag)
        THEN Left(evEvents, evTimers, evRemoved, eventTag)
        ELSE IF found = 0
        THEN Left(evEvents, evTimers, evRemoved, This)
        ELSE Left([i \in 1..(Len(evEvents) - 1) |->
                      IF i < found THEN evEvents[i] ELSE evEvents[i + 1]],
                  evTimers, evRemoved \cup {evEvents[found].id}, This)

InitEvents ==
    /\ evEvents = <<>>
    /\ evTimers = <<>>
    /\ evRemoved = {}
    /\ evInvoked = {}
    /\ evCalls = [on |-> 0, emit |-> 0]
    /\ evOut = Null
    /\ EarlyIdle /\ StorageIdle /\ SignerIdle /\ DriverIdle

\* on(eventName, listener) and once(eventName, listener)
on_call(eventName, listener, once) ==
    /\ evCalls.on < MaxListeners
    /\ LET left == _addEventListener(eventName, listener, once)
       IN  /\ evEvents' = left.events
           /\ evOut' = left.out
           /\ evCalls' = IF IsThrow(left.out) THEN evCalls
                         ELSE [evCalls EXCEPT !.on = @ + 1]
    /\ UNCHANGED <<evTimers, evRemoved, evInvoked, earlyVars, skVars, sgVars, ldVars>>

emit_call(eventName) ==
    /\ evCalls.emit < MaxEmits
    /\ LET left == emit(eventName)
       IN  /\ evEvents' = left.events
           /\ evTimers' = left.timers
           /\ evOut' = left.out
    /\ evCalls' = [evCalls EXCEPT !.emit = @ + 1]
    /\ UNCHANGED <<evRemoved, evInvoked, earlyVars, skVars, sgVars, ldVars>>

\* the oldest timer fires: event.listener.apply(this, args)
timer_fires ==
    /\ evTimers # <<>>
    /\ evInvoked' = evInvoked \cup
                      {[id |-> Head(evTimers).id, tag |-> Head(evTimers).tag,
                        removed |-> Head(evTimers).id \in evRemoved]}
    /\ evTimers' = Tail(evTimers)
    /\ UNCHANGED <<evEvents, evRemoved, evCalls, evOut, earlyVars, skVars, sgVars, ldVars>>

off_call(eventName, listener) ==
    /\ LET left == off(eventName, listener)
       IN  /\ evEvents' = left.events
           /\ evRemoved' = left.removed
           /\ evOut' = left.out
    /\ UNCHANGED <<evTimers, evInvoked, evCalls, earlyVars, skVars, sgVars, ldVars>>

removeAllListeners_call(eventName) ==
    /\ LET left == removeAllListeners(eventName)
       IN  /\ evEvents' = left.events
           /\ evRemoved' = left.removed
           /\ evOut' = left.out
    /\ UNCHANGED <<evTimers, evInvoked, evCalls, earlyVars, skVars, sgVars, ldVars>>

NextEvents ==
    \/ \E eventName \in EventNames, listener \in ListenerFns, once \in BOOLEAN :
         on_call(eventName, listener, once)
    \/ \E eventName \in EventNames : emit_call(eventName)
    \/ timer_fires
    \/ \E eventName \in EventNames,
          listener \in {Str(l) : l \in ListenerFns} \cup {Undefined} :
         off_call(eventName, listener)
    \/ \E eventName \in {Str(n) : n \in EventNames} \cup {Undefined} :
         removeAllListeners_call(eventName)

SpecEvents == InitEvents /\ [][NextEvents]_vars

\* C30: a registration that off or removeAllListeners removed is not
\* invoked afterwards by any emit of its event, not even by an emit made
\* before the removal whose deferred delivery had not run yet
C30_RemovedNeverInvoked == \A call \in evInvoked : ~call.removed
====
